---- MODULE Spec2Model ----
(***************************************************************************)
(* Police-Heatmap-Client: the map synchronisation engine of App.tsx and    *)
(* MapDisplay.tsx (viewport tracker, data synchroniser, layer              *)
(* synchroniser) as a state machine.                                       *)
(*                                                                         *)
(* Conventions                                                             *)
(*  - Coordinates are integers in micro-degrees (1e-6 degree), so the      *)
(*    tolerance 1e-4 of handleMapIdle is 100 and the half width of a cell  *)
(*    0.5 / 10^level is 500000 \div 10^level.                              *)
(*  - Zoom is in tenths of a zoom level (zoom 7 is 70).                    *)
(*  - Time is in milliseconds.                                             *)
(*  - React state lives in the record st (the latest state, what the       *)
(*    functional updaters see); rendered is the state of the last commit   *)
(*    (what closures and dependency lists of the last render hold).        *)
(*    Render is one commit: every effect whose dependency list changed     *)
(*    runs, children before parents, in source order.                      *)
(***************************************************************************)
EXTENDS Integers, Sequences, FiniteSets, TLC

(***************************************************************************)
(* Program constants                                                       *)
(***************************************************************************)
MAX_API_LEVEL == 5
MIN_API_LEVEL == 1
\* ids of TIME_WINDOWS and their number
TIME_WINDOW_IDS == {0, 1, 2, 3}
NumTimeWindows == 4
\* scores of DIVERSITY_SCORE_INFO
DIVERSITY_SCORES == {1, 2, 3, 4}
\* waitFor of debouncedMapIdleHandler, in ms
DebounceWait == 500
\* per-edge tolerance of handleMapIdle, 1e-4 degree in micro-degrees
Tolerance == 100
\* HEATMAP_RELATIVE_MAX_OPACITY / MIN, in units of 1e-2
HEATMAP_RELATIVE_MAX_OPACITY == 85
HEATMAP_RELATIVE_MIN_OPACITY == 40
\* DEFAULT_HEATMAP_OPACITY, in units of 0.05 (the step of the opacity slider)
DEFAULT_HEATMAP_OPACITY == 17
\* initial heatmapRadiusScale 1.0, in units of 0.1 (the step of the slider)
DEFAULT_RADIUS_SCALE == 10

(***************************************************************************)
(* Bounds of the model                                                     *)
(***************************************************************************)
\* fetch cycles whose requests may be outstanding at the same time
MaxInFlight == 2
\* pending timers one debounce closure may hold (only a faulty debounce
\* that does not clear its slot ever holds more than one)
MaxTimers == 2
\* largest step of the clock, in ms
TickMs == 100
\* largest zoom the user reaches, in tenths of a zoom level
MaxZoom == 220
\* most points in one response
MaxPoints == 2

Min(a, b) == IF a < b THEN a ELSE b
Max(a, b) == IF a > b THEN a ELSE b
Abs(a) == IF a < 0 THEN 0 - a ELSE a

RECURSIVE Pow10(_)
Pow10(n) == IF n <= 0 THEN 1 ELSE 10 * Pow10(n - 1)

EmptyMap == [x \in {} |-> 0]

(***************************************************************************)
(* mapUtils.ts                                                             *)
(***************************************************************************)
\* a mapping without the final Math.max, whose first branch yields 0
mapboxZoomToApiLevelUnclamped(mapboxZoom) ==
  IF mapboxZoom < 40 THEN 0
  ELSE IF mapboxZoom < 70 THEN 1
  ELSE IF mapboxZoom < 100 THEN 2
  ELSE IF mapboxZoom < 130 THEN 3
  ELSE IF mapboxZoom < 160 THEN 4
  ELSE MAX_API_LEVEL

\* a mapping whose branches for levels 2 and 3 are exchanged
mapboxZoomToApiLevelExchanged(mapboxZoom) ==
  LET level == IF mapboxZoom < 40 THEN 1
               ELSE IF mapboxZoom < 70 THEN 1
               ELSE IF mapboxZoom < 100 THEN 3
               ELSE IF mapboxZoom < 130 THEN 2
               ELSE IF mapboxZoom < 160 THEN 4
               ELSE MAX_API_LEVEL
  IN Max(MIN_API_LEVEL, level)

\* zoom in tenths
mapboxZoomToApiLevel(mapboxZoom) ==
  LET level == IF mapboxZoom < 40 THEN 1
               ELSE IF mapboxZoom < 70 THEN 1
               ELSE IF mapboxZoom < 100 THEN 2
               ELSE IF mapboxZoom < 130 THEN 3
               ELSE IF mapboxZoom < 160 THEN 4
               ELSE MAX_API_LEVEL
  IN Max(MIN_API_LEVEL, level)

\* 'density' in point ? {density} : {score}
PointProperties(point) ==
  IF "density" \in DOMAIN point THEN [density |-> point.density]
  ELSE [score |-> point.score]

\* a cell whose corners lie a whole cell width from the point
calculateCellPolygonFullDelta(point, apiLevel) ==
  LET effectiveApiLevel == Max(MIN_API_LEVEL, apiLevel)
      halfDelta == 1000000 \div Pow10(effectiveApiLevel)
      minLon == point.lon - halfDelta
      maxLon == point.lon + halfDelta
      minLat == point.lat - halfDelta
      maxLat == point.lat + halfDelta
  IN [type |-> "Polygon",
      coordinates |-> << <<minLon, maxLat>>, <<maxLon, maxLat>>,
                         <<maxLon, minLat>>, <<minLon, minLat>>,
                         <<minLon, maxLat>> >>,
      properties |-> PointProperties(point)]

calculateCellPolygon(point, apiLevel) ==
  LET effectiveApiLevel == Max(MIN_API_LEVEL, apiLevel)
      halfDelta == (1000000 \div Pow10(effectiveApiLevel)) \div 2
      minLon == point.lon - halfDelta
      maxLon == point.lon + halfDelta
      minLat == point.lat - halfDelta
      maxLat == point.lat + halfDelta
  IN [type |-> "Polygon",
      coordinates |-> << <<minLon, maxLat>>, <<maxLon, maxLat>>,
                         <<maxLon, minLat>>, <<minLon, minLat>>,
                         <<minLon, maxLat>> >>,
      properties |-> PointProperties(point)]

\* a conversion that hands the points on last first
createHeatmapPointsReversed(points) ==
  [i \in 1..Len(points) |->
     [type |-> "Point",
      coordinates |-> <<points[Len(points) + 1 - i].lon, points[Len(points) + 1 - i].lat>>,
      properties |-> PointProperties(points[Len(points) + 1 - i])]]

createHeatmapPoints(points) ==
  [i \in 1..Len(points) |->
     [type |-> "Point",
      coordinates |-> <<points[i].lon, points[i].lat>>,
      properties |-> PointProperties(points[i])]]

(***************************************************************************)
(* Identifiers of the sources and layers handleLoad adds                   *)
(***************************************************************************)
DensitySource(id) == <<"source-density", id>>
DiversitySource == <<"source-diversity", 0>>
SourceIds == {DensitySource(id) : id \in TIME_WINDOW_IDS} \cup {DiversitySource}

FillDensity(id) == <<"fill-layer-density", id>>
HeatmapDensity(id) == <<"heatmap-layer-density", id>>
FillDiversity(score) == <<"fill-layer-diversity", score>>
PerScoreDiversity(score) == <<"heatmap-layer-diversity-per-score", score>>
StackedDiversity == <<"heatmap-layer-diversity-stacked", 0>>
LayerIds ==
  {FillDensity(id) : id \in TIME_WINDOW_IDS}
    \cup {HeatmapDensity(id) : id \in TIME_WINDOW_IDS}
    \cup {FillDiversity(s) : s \in DIVERSITY_SCORES}
    \cup {PerScoreDiversity(s) : s \in DIVERSITY_SCORES}
    \cup {StackedDiversity}

(***************************************************************************)
(* Viewports.  A viewport is what map.getBounds() and map.getZoom() give.  *)
(***************************************************************************)
NullBounds == <<>>
getWest(b) == b[1]
getSouth(b) == b[2]
getEast(b) == b[3]
getNorth(b) == b[4]

\* new Map({center: initialCenter || [-98.5795, 39.8283], zoom: initialCenter ? 4 : 3})
InitialView(center) ==
  IF center = "undefined"
    THEN [bounds |-> <<0, 0, 1000, 1000>>, zoom |-> 30]
    ELSE [bounds |-> <<5000, 5000, 6000, 6000>>, zoom |-> 40]

\* The listeners the setup effect attaches to the map it constructs: error
\* (line 102), load, moveend and zoomend (lines 194-196)
MapEvents == {"error", "load", "moveend", "zoomend"}

\* an App that renders the interface whatever the token
AppViewAlways(tokenSet) == "app-container"

\* What App renders (lines 150-152, 163): the error message in place of the
\* whole interface when the token is not configured
AppView(tokenSet) == IF ~tokenSet THEN "error-message" ELSE "app-container"

\* MapDisplay, and with it the map container and the effects of MapDisplay,
\* exists only inside the interface
MapDisplayMounted(tokenSet) == AppView(tokenSet) = "app-container"

\* the guard of the map setup effect (line 93), run by a mounted MapDisplay
\* whose handle is given
SetupRuns(tokenSet, handle) == tokenSet /\ handle = 0

VARIABLES
  st,                    \* React state of App and MapDisplay (latest)
  rendered,              \* React state as of the last commit
  isLoading,             \* MapDisplay: isLoading
  mapRef,                \* MapDisplay: mapRef.current, the number of the map session
  loadFired,             \* the current map has emitted its load event
  camera,                \* the current map's bounds and zoom
  layers,                \* the current map's layers: id -> layout and paint
  sources,               \* the current map's sources: id -> feature sequence
  heatmapRadiusScaleRef, \* MapDisplay: heatmapRadiusScaleRef.current
  heatmapOpacityRef,     \* MapDisplay: heatmapOpacityRef.current
  onMapIdleRef,          \* MapDisplay: onMapIdleRef.current, the values handleMapIdle closes over
  timeout,               \* debounce: the timeout slot of each session's closure
  timers,                \* pending timers of each session's closure: remaining ms, oldest first
  inflight,              \* fetch cycles with unresolved requests, oldest first
  metadataPending,       \* the /api/metadata request is unresolved
  listeners,             \* the events each session's map has a listener of the effect on
  \* history variables, read by the properties only
  sinceSignal,           \* ms since the last moveend/zoomend of each session (capped)
  firedInBurst,          \* debounced callbacks of each session since its last signal
  burstMoves,            \* pans and zooms of each session's current burst (2: two or more)
  unconditionalLoads,    \* load events that found no bounds published
  tornDown,              \* what each run of the setup effect's cleanup left behind
  styled,                \* the layer ids the last run of the layer effect styled
  failed,                \* the sources whose latest settled request failed
  token                  \* import.meta.env.VITE_MAPBOX_TOKEN is set (fixed by the build)

vars == <<st, rendered, isLoading, mapRef, loadFired, camera, layers, sources,
          heatmapRadiusScaleRef, heatmapOpacityRef, onMapIdleRef, timeout,
          timers, inflight, metadataPending, sinceSignal, firedInBurst, burstMoves,
          unconditionalLoads, listeners, tornDown, styled, failed, token>>

Sessions == {1, 2}

\* useState initial values of App (lines 11-38) and MapDisplay (lines 62-63)
InitialState ==
  [selectedTimeWindows |-> {0},
   selectedDiversityScores |-> DIVERSITY_SCORES,
   currentApiLevel |-> MIN_API_LEVEL,
   currentBounds |-> NullBounds,
   mapInstance |-> 0,
   displayMode |-> "heatmap",
   dataSource |-> "density",
   selectedRadiusGroupId |-> 0,
   heatmapRadiusScale |-> DEFAULT_RADIUS_SCALE,
   heatmapOpacity |-> DEFAULT_HEATMAP_OPACITY,
   diversityHeatmapMode |-> "stacked",
   manualPrecisionEnabled |-> FALSE,
   manualPrecisionLevel |-> MIN_API_LEVEL,
   autoCalculatedApiLevel |-> MIN_API_LEVEL,
   appMetadata |-> "null",
   isMapLoaded |-> FALSE]

\* useMemo of App: defined only when the metadata carries a centre
initialMapCenter(s) == IF s.appMetadata = "center" THEN "center" ELSE "undefined"

\* what handleMapIdle closes over (useCallback deps)
IdleClosure(s) ==
  [autoCalculatedApiLevel |-> s.autoCalculatedApiLevel,
   currentBounds |-> s.currentBounds]

\* The state after the first commit: the map of session 1 is constructed and
\* not loaded, the metadata request is out, no effect has found anything to do.
\* The state after the first commit of a build with or without a token
InitFor(tokenSet) ==
  /\ token = tokenSet
  /\ st = InitialState
  /\ rendered = InitialState
  /\ isLoading = FALSE
  /\ mapRef = IF MapDisplayMounted(tokenSet) /\ SetupRuns(tokenSet, 0) THEN 1 ELSE 0
  /\ loadFired = FALSE
  /\ camera = InitialView("undefined")
  /\ layers = EmptyMap
  /\ sources = EmptyMap
  /\ heatmapRadiusScaleRef = DEFAULT_RADIUS_SCALE
  /\ heatmapOpacityRef = DEFAULT_HEATMAP_OPACITY
  /\ onMapIdleRef = IdleClosure(InitialState)
  /\ timeout = [s \in Sessions |-> "null"]
  /\ timers = [s \in Sessions |-> <<>>]
  /\ inflight = <<>>
  /\ metadataPending = TRUE
  /\ sinceSignal = [s \in Sessions |-> DebounceWait + 1]
  /\ firedInBurst = [s \in Sessions |-> 0]
  /\ burstMoves = [s \in Sessions |-> 0]
  /\ unconditionalLoads = 0
  /\ listeners = [s \in Sessions |->
                    IF s = 1 /\ MapDisplayMounted(tokenSet) /\ SetupRuns(tokenSet, 0)
                      THEN MapEvents ELSE {}]
  /\ tornDown = <<>>
  /\ styled = {}
  /\ failed = {}

Init == InitFor(TRUE)


(***************************************************************************)
(* Layers: handleLoad and the layer visibility effect of MapDisplay        *)
(***************************************************************************)
\* heatmap-radius as added by handleLoad (the constant 10), and as set by
\* getHeatmapRadiusExpression: the knob mirror (in 0.1), the age multiplier
\* (in 0.1) and the property whose value multiplier table is used
\* BASE_RADIUS_ZOOM_STOPS (line 20): zoom -> base radius in pixels
BASE_RADIUS_ZOOM_STOPS == << <<3, 10>>, <<7, 15>>, <<9, 20>>, <<12, 25>>, <<15, 20>>, <<18, 15>> >>

\* stops whose multiplier at value 0 is 0
DensityStopsFromZero == << <<0, 0>>, <<50, 8>>, <<150, 10>>, <<255, 15>> >>

\* DENSITY_VALUE_TO_RADIUS_MULTIPLIER_STOPS (line 21): value -> multiplier in 0.1
DENSITY_VALUE_TO_RADIUS_MULTIPLIER_STOPS ==
  << <<0, 6>>, <<50, 8>>, <<150, 10>>, <<255, 15>> >>

\* SCORE_VALUE_TO_RADIUS_MULTIPLIER_STOPS (lines 22-24), the third stop at
\* Math.ceil(TIME_WINDOWS.length / 2) and the last at TIME_WINDOWS.length
SCORE_VALUE_TO_RADIUS_MULTIPLIER_STOPS ==
  << <<0, 6>>, <<1, 8>>, <<(NumTimeWindows + 1) \div 2, 10>>, <<NumTimeWindows, 15>> >>

\* the output of a stop list at one of its stops
AtStop(stops, input) ==
  LET i == CHOOSE k \in 1..Len(stops) : stops[k][1] = input IN stops[i][2]

\* The radius expression built by getHeatmapRadiusExpression (lines 79-89),
\* evaluated at a zoom stop and at a value stop: the product of the scale
\* knob (0.1), the age multiplier (0.1), the base radius at the zoom and
\* the value multiplier (0.1), in units of 1e-3 pixel
RadiusAt(expression, zoom, value) ==
  expression.scale * expression.age * AtStop(BASE_RADIUS_ZOOM_STOPS, zoom)
    * AtStop(IF expression.prop = "density"
               THEN DENSITY_VALUE_TO_RADIUS_MULTIPLIER_STOPS
               ELSE SCORE_VALUE_TO_RADIUS_MULTIPLIER_STOPS, value)

DefaultRadius == [scale |-> 0, age |-> 0, prop |-> "const"]
getHeatmapRadiusExpression(ageBasedRadiusMultiplier, currentDataSource, radiusScaleRef) ==
  [scale |-> radiusScaleRef,
   age |-> ageBasedRadiusMultiplier,
   prop |-> IF currentDataSource = "density" THEN "density" ELSE "score"]

\* heatmap-intensity: the zoom ramp and the multiplier (in 1/15) applied to it
DefaultIntensity == [ramp |-> "const", mult |-> 15]

NoFilter == [op |-> "all", arg |-> {}]
ScoreFilter(score) == [op |-> "eq", arg |-> {score}]

\* whether a layer filter admits a feature with these properties:
\* ['==', ['get', 'score'], score], ['in', ['get', 'score'], ['literal', scores]],
\* ['boolean', false], or no filter
Admits(filter, properties) ==
  CASE filter.op = "all" -> TRUE
    [] filter.op = "false" -> FALSE
    [] filter.op \in {"eq", "in"} ->
         "score" \in DOMAIN properties /\ properties.score \in filter.arg

\* the layer handleLoad adds under an id: hidden, opacity 0
InitialLayer(id) ==
  [visibility |-> "none",
   filter |-> IF id[1] \in {"fill-layer-diversity", "heatmap-layer-diversity-per-score"}
                THEN ScoreFilter(id[2]) ELSE NoFilter,
   fillOpacity |-> "0",
   heatmapOpacity |-> 0,
   heatmapRadius |-> DefaultRadius,
   heatmapIntensity |-> DefaultIntensity,
   heatmapWeight |-> IF id = StackedDiversity THEN "score" ELSE "1"]

InitialLayers == [id \in LayerIds |-> InitialLayer(id)]
InitialSources == [id \in SourceIds |-> <<>>]

\* an opacity without the age gradient
relativeOpacityFlat(id) == HEATMAP_RELATIVE_MAX_OPACITY

\* relativeOpacity of a density heatmap layer, in 1e-2 (lines 249-256)
relativeOpacity(id) ==
  IF NumTimeWindows > 1
    THEN LET raw == HEATMAP_RELATIVE_MAX_OPACITY
                      - (id * (HEATMAP_RELATIVE_MAX_OPACITY - HEATMAP_RELATIVE_MIN_OPACITY))
                          \div (NumTimeWindows - 1)
             clamped == Max(HEATMAP_RELATIVE_MIN_OPACITY, Min(raw, HEATMAP_RELATIVE_MAX_OPACITY))
         IN IF id = 0 THEN HEATMAP_RELATIVE_MAX_OPACITY
            ELSE IF id = NumTimeWindows - 1 THEN HEATMAP_RELATIVE_MIN_OPACITY
            ELSE clamped
    ELSE HEATMAP_RELATIVE_MAX_OPACITY

\* ageRadiusMult = 0.7 + ageFactor * 0.6, in 0.1; intensityMult = 1.2 - ageFactor * 0.4, in 1/15
ageRadiusMult(id) == 7 + (IF NumTimeWindows > 1 THEN (id * 6) \div (NumTimeWindows - 1) ELSE 0)
intensityMult(id) == 18 - (IF NumTimeWindows > 1 THEN (id * 6) \div (NumTimeWindows - 1) ELSE 0)

\* a filter that falls back to every feature when no score is selected
diversityStackedFilterOrAll(selectedDiversityScores) ==
  IF Cardinality(selectedDiversityScores) > 0
    THEN [op |-> "in", arg |-> selectedDiversityScores]
    ELSE [op |-> "all", arg |-> {}]

\* diversityStackedFilter (lines 280-283)
diversityStackedFilter(selectedDiversityScores) ==
  IF Cardinality(selectedDiversityScores) > 0
    THEN [op |-> "in", arg |-> selectedDiversityScores]
    ELSE [op |-> "false", arg |-> {}]

\* a fill layer shown whatever the display mode
DensityFillVisibleAnyMode(s) == s.displayMode \in {"fill", "heatmap"}

\* a density heatmap layer shown only in the per-category render style
DensityHeatmapVisiblePerScoreOnly(s) ==
  s.displayMode = "heatmap" /\ s.diversityHeatmapMode = "perScore"

\* line 241 and line 242
DensityFillVisible(s) == s.displayMode = "fill"
DensityHeatmapVisible(s) == s.displayMode = "heatmap"

\* What the effect leaves on one existing layer: first every layer is hidden
\* (lines 225-233), then the branch of the active data source sets the
\* layers of the selected categories (lines 235-310).
ReconcileLayer(id, old, s, opacityRef, radiusScaleRef) ==
  LET hidden == [old EXCEPT !.visibility = "none"]
      kind == id[1]
      k == id[2]
  IN
  IF s.dataSource = "density"
    THEN IF kind = "fill-layer-density" /\ k \in s.selectedTimeWindows
           THEN IF DensityFillVisible(s)
                  THEN [hidden EXCEPT !.visibility = "visible", !.fillOpacity = "density"]
                  ELSE hidden
         ELSE IF kind = "heatmap-layer-density" /\ k \in s.selectedTimeWindows
           THEN IF DensityHeatmapVisible(s)
                  THEN [hidden EXCEPT
                          !.visibility = "visible",
                          !.heatmapOpacity = relativeOpacity(k) * opacityRef,
                          !.heatmapWeight = "density",
                          !.heatmapRadius =
                             getHeatmapRadiusExpression(ageRadiusMult(k), "density", radiusScaleRef),
                          !.heatmapIntensity = [ramp |-> "density", mult |-> intensityMult(k)]]
                  ELSE hidden
         ELSE hidden
  ELSE IF s.displayMode = "fill"
    THEN IF kind = "fill-layer-diversity" /\ k \in s.selectedDiversityScores
           THEN [hidden EXCEPT !.visibility = "visible", !.fillOpacity = "diversity"]
           ELSE hidden
  ELSE IF s.diversityHeatmapMode = "stacked"
    THEN IF id = StackedDiversity
           THEN [hidden EXCEPT
                   !.visibility = "visible",
                   !.filter = diversityStackedFilter(s.selectedDiversityScores),
                   !.heatmapOpacity = 100 * opacityRef,
                   !.heatmapRadius = getHeatmapRadiusExpression(10, "diversity", radiusScaleRef),
                   !.heatmapIntensity = [ramp |-> "diversity", mult |-> 15]]
           ELSE hidden
  ELSE IF kind = "heatmap-layer-diversity-per-score" /\ k \in s.selectedDiversityScores
    THEN [hidden EXCEPT
            !.visibility = "visible",
            !.heatmapOpacity = 100 * opacityRef,
            !.heatmapRadius = getHeatmapRadiusExpression(10, "diversity", radiusScaleRef),
            !.heatmapIntensity = [ramp |-> "diversity", mult |-> 15]]
    ELSE hidden

\* a reconciliation that hides the stacked layer while no score is selected
ReconcileHidingEmptyStacked(ls, s, opacityRef, radiusScaleRef) ==
  [id \in DOMAIN ls |->
     LET l == ReconcileLayer(id, ls[id], s, opacityRef, radiusScaleRef)
     IN IF id = StackedDiversity /\ s.selectedDiversityScores = {}
          THEN [l EXCEPT !.visibility = "none"] ELSE l]

\* a reconciliation that adds to the heatmap opacity a layer already has
ReconcileAddingOpacity(ls, s, opacityRef, radiusScaleRef) ==
  [id \in DOMAIN ls |->
     LET l == ReconcileLayer(id, ls[id], s, opacityRef, radiusScaleRef)
     IN IF l.visibility = "visible"
          THEN [l EXCEPT !.heatmapOpacity = @ + ls[id].heatmapOpacity] ELSE l]

\* a reconciliation that leaves the layers of the other family as they were
ReconcileActiveFamilyOnly(ls, s, opacityRef, radiusScaleRef) ==
  [id \in DOMAIN ls |->
     IF (id[1] \in {"fill-layer-density", "heatmap-layer-density"}) = (s.dataSource = "density")
       THEN ReconcileLayer(id, ls[id], s, opacityRef, radiusScaleRef)
       ELSE ls[id]]

\* the body of the effect after its guard; a layer that does not exist is skipped
Reconcile(ls, s, opacityRef, radiusScaleRef) ==
  [id \in DOMAIN ls |-> ReconcileLayer(id, ls[id], s, opacityRef, radiusScaleRef)]

\* an effect that styles every layer it knows of, on the map or not
StyledLayersUnguarded(ls, s, handle) ==
  IF ~s.isMapLoaded \/ handle = 0 THEN {} ELSE LayerIds

\* The layers one run of the layer visibility effect makes styling calls on
\* (setLayoutProperty, setPaintProperty, setFilter): none when the guard of
\* line 221 returns; otherwise each call is behind map.getLayer(id) (lines
\* 225-233, 243-246, 270, 287, 299), and the first block reaches every id.
StyledLayers(ls, s, handle) ==
  IF ~s.isMapLoaded \/ handle = 0 THEN {} ELSE {id \in LayerIds : id \in DOMAIN ls}

\* dependency list of the layer visibility effect (line 311)
LayerDeps(s) ==
  <<s.isMapLoaded, s.displayMode, s.dataSource, s.selectedTimeWindows,
    s.selectedDiversityScores, s.heatmapRadiusScale, s.heatmapOpacity,
    s.diversityHeatmapMode>>


(***************************************************************************)
(* Data synchroniser: the fetch effect of MapDisplay and its continuations *)
(***************************************************************************)
\* a dependency list without the precision level
FetchDepsWithoutLevel(s) ==
  <<s.selectedTimeWindows, s.selectedRadiusGroupId, s.currentBounds,
    s.isMapLoaded, s.displayMode, s.dataSource>>

\* a dependency list without the display mode
FetchDepsWithoutDisplayMode(s) ==
  <<s.selectedTimeWindows, s.selectedRadiusGroupId, s.currentApiLevel,
    s.currentBounds, s.isMapLoaded, s.dataSource>>

\* a dependency list with the selected diversity scores
FetchDepsWithScores(s) ==
  <<s.selectedTimeWindows, s.selectedRadiusGroupId, s.currentApiLevel,
    s.currentBounds, s.isMapLoaded, s.displayMode, s.dataSource,
    s.selectedDiversityScores>>

\* dependency list of the fetch effect (line 376)
FetchDeps(s) ==
  <<s.selectedTimeWindows, s.selectedRadiusGroupId, s.currentApiLevel,
    s.currentBounds, s.isMapLoaded, s.displayMode, s.dataSource>>

\* the guard of the fetch effect (line 315)
FetchGuard(s, map) == s.isMapLoaded /\ map # 0 /\ s.currentBounds # NullBounds

\* the sources for which the effect starts a request (lines 327-331, 352-354)
\* a cycle that requests every time window, selected or not
RequestedSourcesAllWindows(s) ==
  IF s.dataSource = "density"
    THEN {DensitySource(id) : id \in TIME_WINDOW_IDS}
    ELSE {DiversitySource}

RequestedSources(s) ==
  IF s.dataSource = "density"
    THEN {DensitySource(id) : id \in s.selectedTimeWindows}
    ELSE {DiversitySource}

\* The requests one run of the effect starts.  Every continuation closes
\* over the render's displayMode, currentApiLevel, currentBounds and over the
\* source object it looked up (src: the session of that source, 0 when
\* map.getSource returned undefined).  overtaken is a history field: the
\* requests of the cycle after whose issue a later request for the same
\* source has already written that source.
NewCycle(s, map, srcs) ==
  [dataSource |-> s.dataSource,
   displayMode |-> s.displayMode,
   level |-> s.currentApiLevel,
   bounds |-> s.currentBounds,
   group |-> IF s.dataSource = "density" THEN 0 ELSE s.selectedRadiusGroupId,
   src |-> IF DOMAIN srcs = {} THEN 0 ELSE map,
   pending |-> RequestedSources(s),
   overtaken |-> {}]

\* the sources the effect sets to an empty collection before it fetches
\* (lines 322-329, 348-351); a source that does not exist is skipped
ClearedSources(s, srcs) ==
  [id \in DOMAIN srcs |->
     IF id \in RequestedSources(s) THEN srcs[id] ELSE <<>>]

\* an effect run that leaves the flag set when it started nothing
LoadingAfterEffectAlways(s) == TRUE

\* lines 371-375: true while Promise.all waits, false when nothing was started
LoadingAfterEffect(s) == RequestedSources(s) # {}

\* a continuation that converts with the display mode and the level of the
\* last commit at the time the response arrives
FeaturesAtArrival(displayMode, level, data) ==
  IF rendered.displayMode = "fill"
    THEN [j \in 1..Len(data) |-> calculateCellPolygon(data[j], rendered.currentApiLevel)]
    ELSE createHeatmapPoints(data)

\* the geometry a continuation writes (lines 338, 361)
Features(displayMode, level, data) ==
  IF displayMode = "fill"
    THEN [j \in 1..Len(data) |-> calculateCellPolygon(data[j], level)]
    ELSE createHeatmapPoints(data)

\* Whether a continuation may write its source.  The code has no guard: the
\* only condition is that the source object it captured exists (source?.setData)
\* and is a source of the current map.
\* The query string of the request of a density cycle for the source id
\* (the URLSearchParams of line 334)
DensityRequest(cyc, id) ==
  [time_window_id |-> id[2],
   level |-> cyc.level,
   min_lon |-> getWest(cyc.bounds),
   min_lat |-> cyc.bounds[2],
   max_lon |-> cyc.bounds[3],
   max_lat |-> cyc.bounds[4]]

MayWrite(cyc, map, srcs, id) == cyc.src # 0 /\ cyc.src = map /\ id \in DOMAIN srcs

RemoveAt(seq, i) == SubSeq(seq, 1, i - 1) \o SubSeq(seq, i + 1, Len(seq))

(***************************************************************************)
(* Viewport tracker: debounce, handleMapIdle and the level effects of App  *)
(***************************************************************************)
\* the comparison without a tolerance
BoundsChangedExact(newBounds, currentBounds) ==
  currentBounds = NullBounds \/ newBounds # currentBounds

\* boundsChanged of handleMapIdle (lines 130-134)
BoundsChanged(newBounds, currentBounds) ==
  \/ currentBounds = NullBounds
  \/ Abs(getWest(newBounds) - getWest(currentBounds)) > Tolerance
  \/ Abs(getSouth(newBounds) - getSouth(currentBounds)) > Tolerance
  \/ Abs(getEast(newBounds) - getEast(currentBounds)) > Tolerance
  \/ Abs(getNorth(newBounds) - getNorth(currentBounds)) > Tolerance

\* handleMapIdle(map) run with the closure cl on the state s (lines 117-139)
handleMapIdle(s, cl, map, cam) ==
  LET newAutoApiLevel == mapboxZoomToApiLevel(cam.zoom)
      s1 == [s EXCEPT !.mapInstance = map]
      s2 == IF newAutoApiLevel # cl.autoCalculatedApiLevel
              THEN [s1 EXCEPT !.autoCalculatedApiLevel = newAutoApiLevel]
              ELSE s1
  IN IF BoundsChanged(cam.bounds, cl.currentBounds)
       THEN [s2 EXCEPT !.currentBounds = cam.bounds]
       ELSE s2

\* the effective level effect of App (lines 109-114)
EffectiveLevelDeps(s) ==
  <<s.manualPrecisionEnabled, s.manualPrecisionLevel, s.autoCalculatedApiLevel,
    s.currentApiLevel>>
\* the effective level taken from the zoom whatever the manual override
newEffectiveApiLevelAuto(s) == s.autoCalculatedApiLevel

newEffectiveApiLevel(s) ==
  IF s.manualPrecisionEnabled THEN s.manualPrecisionLevel ELSE s.autoCalculatedApiLevel

\* the initial bounds effect of App (lines 141-148)
InitialBoundsDeps(s) == <<s.mapInstance, s.currentBounds>>

\* the debounced function without clearTimeout: every call arms a timer
debouncedNoClear(slot, pending) ==
  [timeout |-> "id", timers |-> Append(pending, DebounceWait)]

\* the debounced function as a throttle: a call made while a timer is
\* pending leaves that timer to run
debouncedKeepFirst(slot, pending) ==
  IF slot # "null" /\ Len(pending) > 0
    THEN [timeout |-> slot, timers |-> pending]
    ELSE [timeout |-> "id", timers |-> Append(pending, DebounceWait)]

\* One call of the debounced function (mapUtils.ts lines 117-123) on the
\* closure's slot and pending timers: the timer the slot names is the one
\* armed last, so clearTimeout removes the last pending timer, if it has
\* not fired yet.
debounced(slot, pending) ==
  LET cleared == IF slot # "null" /\ Len(pending) > 0
                   THEN SubSeq(pending, 1, Len(pending) - 1)
                   ELSE pending
  IN [timeout |-> "id", timers |-> Append(cleared, DebounceWait)]

\* moveend, and zoomend when the zoom changed, both subscribed to the
\* debounced handler (lines 195-196)
Signals(oldCam, newCam) == IF oldCam.zoom # newCam.zoom THEN 2 ELSE 1

RECURSIVE SignalN(_, _, _)
SignalN(n, slot, pending) ==
  IF n = 0 THEN [timeout |-> slot, timers |-> pending]
  ELSE LET d == debounced(slot, pending) IN SignalN(n - 1, d.timeout, d.timers)


(***************************************************************************)
(* Actions                                                                 *)
(***************************************************************************)
\* One commit of React: rendered becomes the latest state and every effect
\* whose dependency list changed runs.  MapDisplay's effects run first, in
\* source order: the knob and callback mirrors (lines 66-72), the map setup
\* effect (cleanup of the old map, then a new map: lines 92-217), the layer
\* visibility effect (lines 220-311), the fetch effect (lines 314-376); then
\* App's effective level effect and initial bounds effect.  State set by an
\* effect is seen by the next commit.
\* a cleanup whose diversity loop removes the fill layers only
cleanupKeepingPerScore(handle, ls, srcs, attached) ==
  LET removedLayers ==
        {FillDensity(id) : id \in TIME_WINDOW_IDS}
          \cup {HeatmapDensity(id) : id \in TIME_WINDOW_IDS}
          \cup {FillDiversity(score) : score \in DIVERSITY_SCORES}
          \cup {StackedDiversity}
      removedSources == {DensitySource(id) : id \in TIME_WINDOW_IDS} \cup {DiversitySource}
  IN [listeners |-> attached \ {"load", "moveend", "zoomend", "error"},
      layers |-> IF handle # 0 THEN DOMAIN ls \ removedLayers ELSE DOMAIN ls,
      sources |-> IF handle # 0 THEN DOMAIN srcs \ removedSources ELSE DOMAIN srcs,
      mapRef |-> 0,
      isMapLoaded |-> FALSE]

\* The cleanup of the map setup effect (lines 198-216), run on the map whose
\* handle, layers, sources and attached listeners are given: the four
\* map.off calls (line 199), then, while mapRef.current is set, the removal
\* of each layer and source the code names (lines 202-212), then
\* mapRef.current = null and setIsMapLoaded(false) (line 215).  The result
\* records what is left on the map when currentMap.remove() (line 213)
\* destroys it, and the handle and loaded flag the cleanup leaves.
cleanup(handle, ls, srcs, attached) ==
  LET removedLayers ==
        {FillDensity(id) : id \in TIME_WINDOW_IDS}
          \cup {HeatmapDensity(id) : id \in TIME_WINDOW_IDS}
          \cup {FillDiversity(score) : score \in DIVERSITY_SCORES}
          \cup {PerScoreDiversity(score) : score \in DIVERSITY_SCORES}
          \cup {StackedDiversity}
      removedSources == {DensitySource(id) : id \in TIME_WINDOW_IDS} \cup {DiversitySource}
  IN [listeners |-> attached \ {"load", "moveend", "zoomend", "error"},
      layers |-> IF handle # 0 THEN DOMAIN ls \ removedLayers ELSE DOMAIN ls,
      sources |-> IF handle # 0 THEN DOMAIN srcs \ removedSources ELSE DOMAIN srcs,
      mapRef |-> 0,
      isMapLoaded |-> FALSE]

\* a layer effect that runs before the mirror effects of its commit
MirrorAfterLayerEffect(ref, prop) == ref

\* The value the layer effect reads from a knob mirror: the mirror effects
\* (lines 66 and 69) are declared before the layer effect (line 220) and the
\* effects of a commit run in the order of their declaration, so the mirror
\* holds the prop of this commit when the layer effect reads it
MirrorAtLayerEffect(ref, prop) == prop

\* What the effects of App and the cleanup of MapDisplay make of the state n
\* committed after the state p: the setup cleanup (line 214), the effective
\* level effect (lines 109-114) and the initial bounds effect (141-148)
CommitEffects(p, n, remount, unloaded, cam) ==
  LET sA == IF remount THEN [n EXCEPT !.isMapLoaded = unloaded] ELSE n
      sB == IF /\ EffectiveLevelDeps(n) # EffectiveLevelDeps(p)
               /\ newEffectiveApiLevel(n) # n.currentApiLevel
              THEN [sA EXCEPT !.currentApiLevel = newEffectiveApiLevel(n)]
              ELSE sA
  IN IF /\ InitialBoundsDeps(n) # InitialBoundsDeps(p)
        /\ n.mapInstance # 0
        /\ n.currentBounds = NullBounds
       THEN [sB EXCEPT !.autoCalculatedApiLevel = mapboxZoomToApiLevel(cam.zoom),
                       !.currentBounds = cam.bounds]
       ELSE sB

Render ==
  /\ st # rendered
  /\ LET p == rendered
         n == st
         mounted == MapDisplayMounted(token)
         remount == mounted /\ initialMapCenter(n) # initialMapCenter(p)
         c == cleanup(mapRef, layers, sources,
                      IF mapRef \in Sessions THEN listeners[mapRef] ELSE {})
         map1 == IF remount /\ SetupRuns(token, c.mapRef) THEN mapRef + 1 ELSE mapRef
         layers1 == IF remount THEN EmptyMap ELSE layers
         sources1 == IF remount THEN EmptyMap ELSE sources
         runLayers == mounted /\ LayerDeps(n) # LayerDeps(p) /\ n.isMapLoaded /\ map1 # 0
         runFetch == mounted /\ FetchDeps(n) # FetchDeps(p) /\ FetchGuard(n, map1)
         issues == runFetch /\ RequestedSources(n) # {}
         sC == CommitEffects(p, n, remount, c.isMapLoaded, camera)
     IN /\ issues => Len(inflight) < MaxInFlight
        /\ rendered' = n
        /\ st' = sC
        /\ heatmapRadiusScaleRef' = IF mounted THEN n.heatmapRadiusScale
                                                ELSE heatmapRadiusScaleRef
        /\ heatmapOpacityRef' = IF mounted THEN n.heatmapOpacity ELSE heatmapOpacityRef
        /\ onMapIdleRef' = IF mounted THEN IdleClosure(n) ELSE onMapIdleRef
        /\ mapRef' = map1
        /\ loadFired' = IF remount THEN FALSE ELSE loadFired
        /\ camera' = IF remount THEN InitialView(initialMapCenter(n)) ELSE camera
        /\ layers' = IF runLayers
                       THEN Reconcile(layers1, n,
                                      MirrorAtLayerEffect(heatmapOpacityRef, n.heatmapOpacity),
                                      MirrorAtLayerEffect(heatmapRadiusScaleRef,
                                                          n.heatmapRadiusScale))
                       ELSE layers1
        /\ sources' = IF runFetch THEN ClearedSources(n, sources1) ELSE sources1
        /\ inflight' = IF issues THEN Append(inflight, NewCycle(n, map1, sources1)) ELSE inflight
        /\ isLoading' = IF runFetch THEN LoadingAfterEffect(n) ELSE isLoading
        /\ listeners' = IF remount
                          THEN [listeners EXCEPT ![mapRef] = c.listeners, ![map1] = MapEvents]
                          ELSE listeners
        /\ tornDown' = IF remount THEN Append(tornDown, c) ELSE tornDown
        /\ styled' = IF mounted /\ LayerDeps(n) # LayerDeps(p)
                       THEN StyledLayers(layers1, n, map1)
                       ELSE styled
  /\ UNCHANGED <<timeout, timers, metadataPending, sinceSignal, firedInBurst, burstMoves,
                 unconditionalLoads, failed, token>>

\* handleLoad without its direct call of the viewport callback
LoadWithoutReport ==
  /\ mapRef # 0
  /\ "load" \in listeners[mapRef]
  /\ ~loadFired
  /\ ~rendered.isMapLoaded
  /\ loadFired' = TRUE
  /\ st' = [st EXCEPT !.isMapLoaded = TRUE]
  /\ layers' = InitialLayers
  /\ sources' = InitialSources
  /\ UNCHANGED <<rendered, isLoading, mapRef, camera, heatmapRadiusScaleRef,
                 heatmapOpacityRef, onMapIdleRef, timeout, timers, inflight,
                 metadataPending, sinceSignal, firedInBurst, burstMoves,
                 unconditionalLoads, listeners, tornDown, styled, failed, token>>

\* The load event of the current map: handleLoad (lines 104-191).  The style
\* of a map is fetched over the network, so the event follows the commit
\* that tore the previous map down (rendered.isMapLoaded is false by then).
Load ==
  /\ mapRef # 0
  /\ "load" \in listeners[mapRef]
  /\ ~loadFired
  /\ ~rendered.isMapLoaded
  /\ loadFired' = TRUE
  /\ st' = handleMapIdle([st EXCEPT !.isMapLoaded = TRUE], onMapIdleRef, mapRef, camera)
  /\ layers' = InitialLayers
  /\ sources' = InitialSources
  /\ unconditionalLoads' =
       IF onMapIdleRef.currentBounds = NullBounds
         THEN unconditionalLoads + 1 ELSE unconditionalLoads
  /\ UNCHANGED <<rendered, isLoading, mapRef, camera, heatmapRadiusScaleRef,
                 heatmapOpacityRef, onMapIdleRef, timeout, timers, inflight,
                 metadataPending, sinceSignal, firedInBurst,
                 burstMoves, listeners, tornDown, styled, failed, token>>

\* The user pans or zooms the current map to the viewport v: moveend (and
\* zoomend) call the debounced handler of the session.
MapMove(v) ==
  /\ mapRef # 0
  /\ listeners[mapRef] \cap {"moveend", "zoomend"} # {}
  /\ v # camera
  /\ Len(timers[mapRef]) < MaxTimers
  /\ camera' = v
  /\ LET d == SignalN(Signals(camera, v), timeout[mapRef], timers[mapRef])
     IN /\ timeout' = [timeout EXCEPT ![mapRef] = d.timeout]
        /\ timers' = [timers EXCEPT ![mapRef] = d.timers]
  /\ sinceSignal' = [sinceSignal EXCEPT ![mapRef] = 0]
  /\ firedInBurst' = [firedInBurst EXCEPT ![mapRef] = 0]
  /\ burstMoves' = [burstMoves EXCEPT ![mapRef] =
                      IF sinceSignal[mapRef] < DebounceWait THEN 2 ELSE 1]
  /\ UNCHANGED <<st, rendered, isLoading, mapRef, loadFired, layers, sources,
                 heatmapRadiusScaleRef, heatmapOpacityRef, onMapIdleRef,
                 inflight, metadataPending, unconditionalLoads, listeners, tornDown, styled, failed, token>>

Remaining == UNION {{timers[s][i] : i \in 1..Len(timers[s])} : s \in Sessions}
MinOf(S) == CHOOSE x \in S : \A y \in S : x <= y

\* Time passes: at most step ms, and never beyond the moment a timer is due.
Tick(step) ==
  /\ 0 \notin Remaining
  /\ \/ Remaining # {}
     \/ \E s \in Sessions : sinceSignal[s] <= DebounceWait
  /\ LET d == IF Remaining = {} THEN step ELSE Min(step, MinOf(Remaining))
     IN /\ timers' = [s \in Sessions |->
                        [i \in 1..Len(timers[s]) |-> timers[s][i] - d]]
        /\ sinceSignal' = [s \in Sessions |-> Min(sinceSignal[s] + d, DebounceWait + 1)]
        /\ burstMoves' = [s \in Sessions |->
                            IF sinceSignal[s] + d > DebounceWait THEN 0 ELSE burstMoves[s]]
  /\ UNCHANGED <<st, rendered, isLoading, mapRef, loadFired, camera, layers,
                 sources, heatmapRadiusScaleRef, heatmapOpacityRef, onMapIdleRef,
                 timeout, inflight, metadataPending, firedInBurst,
                 unconditionalLoads, listeners, tornDown, styled, failed, token>>

\* A timer of session s is due: () => func(...args), where func is
\* () => { if (mapRef.current) onMapIdleRef.current(mapRef.current) } (line 193)
TimerFire(s) ==
  /\ Len(timers[s]) > 0
  /\ Head(timers[s]) = 0
  /\ timers' = [timers EXCEPT ![s] = Tail(timers[s])]
  /\ st' = IF mapRef # 0 THEN handleMapIdle(st, onMapIdleRef, mapRef, camera) ELSE st
  /\ firedInBurst' = [firedInBurst EXCEPT ![s] = Min(firedInBurst[s] + 1, 2)]
  /\ UNCHANGED <<rendered, isLoading, mapRef, loadFired, camera, layers, sources,
                 heatmapRadiusScaleRef, heatmapOpacityRef, onMapIdleRef, timeout,
                 inflight, metadataPending, sinceSignal, burstMoves,
                 unconditionalLoads, listeners, tornDown, styled, failed, token>>

\* a continuation whose catch block leaves the source as it was
ResolveKeepingOnFailure(i, id, outcome, data) ==
  /\ i \in 1..Len(inflight)
  /\ id \in inflight[i].pending
  /\ LET cyc == inflight[i]
         writes == MayWrite(cyc, mapRef, sources, id)
         left == cyc.pending \ {id}
         marked == [j \in 1..Len(inflight) |->
                      IF j < i /\ writes /\ id \in inflight[j].pending
                        THEN [inflight[j] EXCEPT !.overtaken = @ \cup {id}]
                      ELSE IF j = i
                        THEN [cyc EXCEPT !.pending = left, !.overtaken = @ \ {id}]
                      ELSE inflight[j]]
     IN /\ sources' = IF writes /\ outcome = "ok"
                        THEN [sources EXCEPT ![id] =
                                IF outcome = "ok"
                                  THEN Features(cyc.displayMode, cyc.level, data)
                                  ELSE <<>>]
                        ELSE sources
        /\ inflight' = IF left = {} THEN RemoveAt(marked, i) ELSE marked
        /\ isLoading' = IF left = {} THEN FALSE ELSE isLoading
  /\ failed' = IF outcome = "failed" THEN failed \cup {id} ELSE failed \ {id}
  /\ UNCHANGED <<st, rendered, mapRef, loadFired, camera, layers,
                 heatmapRadiusScaleRef, heatmapOpacityRef, onMapIdleRef, timeout,
                 timers, metadataPending, sinceSignal, firedInBurst, burstMoves,
                 unconditionalLoads, listeners, tornDown, styled, token>>

\* The continuation of the request of cycle i for source id resumes: the
\* response was ok and parsed to data, or the request failed (lines 332-344,
\* 355-367); when it was the last of its cycle, Promise.all(...).finally
\* clears isLoading (line 372).
Resolve(i, id, outcome, data) ==
  /\ i \in 1..Len(inflight)
  /\ id \in inflight[i].pending
  /\ LET cyc == inflight[i]
         writes == MayWrite(cyc, mapRef, sources, id)
         left == cyc.pending \ {id}
         marked == [j \in 1..Len(inflight) |->
                      IF j < i /\ writes /\ id \in inflight[j].pending
                        THEN [inflight[j] EXCEPT !.overtaken = @ \cup {id}]
                      ELSE IF j = i
                        THEN [cyc EXCEPT !.pending = left, !.overtaken = @ \ {id}]
                      ELSE inflight[j]]
     IN /\ sources' = IF writes
                        THEN [sources EXCEPT ![id] =
                                IF outcome = "ok"
                                  THEN Features(cyc.displayMode, cyc.level, data)
                                  ELSE <<>>]
                        ELSE sources
        /\ inflight' = IF left = {} THEN RemoveAt(marked, i) ELSE marked
        /\ isLoading' = IF left = {} THEN FALSE ELSE isLoading
  /\ failed' = IF outcome = "failed" THEN failed \cup {id} ELSE failed \ {id}
  /\ UNCHANGED <<st, rendered, mapRef, loadFired, camera, layers,
                 heatmapRadiusScaleRef, heatmapOpacityRef, onMapIdleRef, timeout,
                 timers, metadataPending, sinceSignal, firedInBurst, burstMoves,
                 unconditionalLoads, listeners, tornDown, styled, token>>

\* fetchMetadata resumes (App lines 41-58): data with a centre, data without
\* one, or {} after a 404 or a failure
MetadataArrive(outcome) ==
  /\ metadataPending
  /\ metadataPending' = FALSE
  /\ st' = [st EXCEPT !.appMetadata = outcome]
  /\ UNCHANGED <<rendered, isLoading, mapRef, loadFired, camera, layers, sources,
                 heatmapRadiusScaleRef, heatmapOpacityRef, onMapIdleRef, timeout,
                 timers, inflight, sinceSignal, firedInBurst, burstMoves,
                 unconditionalLoads, listeners, tornDown, styled, failed, token>>

\* The answers /api/metadata may give: a 2xx response whose body is an
\* object with or without the centre of the region, a 404, another non-2xx
\* status, a rejected fetch, and a 2xx response whose body is not JSON
MetadataResponses ==
  {"ok-center", "ok-plain", "404", "500", "network-error", "malformed-json"}

\* a fetchMetadata without its try and catch: a throw leaves the state unset
fetchMetadataUncaught(response) ==
  CASE response = "ok-center" -> "center"
    [] response = "ok-plain" -> "plain"
    [] response = "404" -> "empty"
    [] OTHER -> "null"

\* The value fetchMetadata sets appMetadata to (App lines 41-58): the body
\* of a good response, {} at once on a 404 (lines 45-48), and {} from the
\* catch block (lines 54-57) when line 49 throws on another status, when
\* fetch rejects, or when response.json() rejects
fetchMetadata(response) ==
  CASE response = "ok-center" -> "center"
    [] response = "ok-plain" -> "plain"
    [] response = "404" -> "empty"
    [] response \in {"500", "network-error", "malformed-json"} -> "empty"

\* the metadata request is answered
MetadataResponse(response) == MetadataArrive(fetchMetadata(response))

\* everything but the React state
world == <<rendered, isLoading, mapRef, loadFired, camera, layers, sources,
           heatmapRadiusScaleRef, heatmapOpacityRef, onMapIdleRef, timeout,
           timers, inflight, metadataPending, sinceSignal, firedInBurst, burstMoves,
           unconditionalLoads, listeners, tornDown, styled, failed, token>>

Toggle(set, x) == IF x \in set THEN set \ {x} ELSE set \cup {x}

\* The controls of App.  A control exists only while the last commit
\* rendered it (lines 166-260), and React commits the state set by an
\* earlier event before it dispatches the next input event (Settled).
Settled == st = rendered /\ AppView(token) = "app-container"

handleTimeWindowChange(id) ==
  /\ Settled
  /\ rendered.dataSource = "density"
  /\ st' = [st EXCEPT !.selectedTimeWindows = Toggle(@, id)]
  /\ UNCHANGED world

handleDiversityScoreChange(score) ==
  /\ Settled
  /\ rendered.dataSource = "diversity"
  /\ st' = [st EXCEPT !.selectedDiversityScores = Toggle(@, score)]
  /\ UNCHANGED world

handleDisplayModeChange(mode) ==
  /\ Settled
  /\ mode # rendered.displayMode
  /\ st' = [st EXCEPT !.displayMode = mode]
  /\ UNCHANGED world

handleDataSourceChange(source) ==
  /\ Settled
  /\ source # rendered.dataSource
  /\ st' = [st EXCEPT !.dataSource = source]
  /\ UNCHANGED world

handleRadiusGroupChange(group) ==
  /\ Settled
  /\ rendered.dataSource = "diversity"
  /\ group # rendered.selectedRadiusGroupId
  /\ st' = [st EXCEPT !.selectedRadiusGroupId = group]
  /\ UNCHANGED world

handleHeatmapRadiusScaleChange(value) ==
  /\ Settled
  /\ rendered.displayMode = "heatmap"
  /\ value # rendered.heatmapRadiusScale
  /\ st' = [st EXCEPT !.heatmapRadiusScale = value]
  /\ UNCHANGED world

handleHeatmapOpacityChange(value) ==
  /\ Settled
  /\ rendered.displayMode = "heatmap"
  /\ value # rendered.heatmapOpacity
  /\ st' = [st EXCEPT !.heatmapOpacity = value]
  /\ UNCHANGED world

handleDiversityHeatmapModeChange(mode) ==
  /\ Settled
  /\ rendered.displayMode = "heatmap"
  /\ rendered.dataSource = "diversity"
  /\ mode # rendered.diversityHeatmapMode
  /\ st' = [st EXCEPT !.diversityHeatmapMode = mode]
  /\ UNCHANGED world

\* a toggle that leaves the manual level as it was
handleManualPrecisionToggleKeepingLevel ==
  /\ Settled
  /\ st' = [st EXCEPT !.manualPrecisionEnabled = ~rendered.manualPrecisionEnabled]
  /\ UNCHANGED world

\* handleManualPrecisionToggle (lines 97-103)
handleManualPrecisionToggle ==
  /\ Settled
  /\ LET nextEnabledState == ~rendered.manualPrecisionEnabled
         s1 == IF nextEnabledState
                 THEN [st EXCEPT !.manualPrecisionLevel = rendered.autoCalculatedApiLevel]
                 ELSE st
     IN st' = [s1 EXCEPT !.manualPrecisionEnabled = nextEnabledState]
  /\ UNCHANGED world

\* a control that hands on any position of its thumb
rangeValueUnclamped(position, min, max) == position

\* The value of <input type="range" min max step="1"> for a position of its
\* thumb: the control keeps its value within min and max (lines 215-224)
rangeValue(position, min, max) == Max(min, Min(position, max))

handleManualPrecisionChange(level) ==
  /\ Settled
  /\ rendered.manualPrecisionEnabled
  /\ level # rendered.manualPrecisionLevel
  /\ st' = [st EXCEPT !.manualPrecisionLevel = level]
  /\ UNCHANGED world

(***************************************************************************)
(* Specifications                                                          *)
(***************************************************************************)
\* response bodies
DensityPoint == [lon |-> 500, lat |-> 500, density |-> 10]
DiversityPoint == [lon |-> 500, lat |-> 500, score |-> 2]
ResponseData(dataSource) ==
  IF dataSource = "density" THEN {<<>>, <<DensityPoint>>} ELSE {<<>>, <<DiversityPoint>>}

ResolveAny ==
  \E i \in 1..Len(inflight) :
    \E id \in inflight[i].pending :
      \/ \E data \in ResponseData(inflight[i].dataSource) : Resolve(i, id, "ok", data)
      \/ Resolve(i, id, "failed", <<>>)

\* Data synchroniser: the map loads and its viewport stays put; the user
\* toggles two of the time windows and the data source while responses
\* arrive in any order, successfully or not.
Next ==
  \/ Load
  \/ Render
  \/ \E id \in {0, 1} : handleTimeWindowChange(id)
  \/ \E source \in {"density", "diversity"} : handleDataSourceChange(source)
  \/ ResolveAny

Spec == Init /\ [][Next]_vars

\* The data synchroniser with a network that answers: the user toggles one
\* time window and the data source, and a request in flight is eventually
\* resolved, successfully or not.
NextAnswered ==
  \/ Load
  \/ Render
  \/ handleTimeWindowChange(0)
  \/ \E source \in {"density", "diversity"} : handleDataSourceChange(source)
  \/ ResolveAny

SpecAnswered == Init /\ [][NextAnswered]_vars /\ WF_vars(ResolveAny)

\* Data synchroniser with the display mode: as Spec, with one time window
\* toggled and the display mode switched between fill and heatmap.
NextMode ==
  \/ Load
  \/ Render
  \/ handleTimeWindowChange(0)
  \/ \E mode \in {"fill", "heatmap"} : handleDisplayModeChange(mode)
  \/ \E source \in {"density", "diversity"} : handleDataSourceChange(source)
  \/ ResolveAny

SpecMode == Init /\ [][NextMode]_vars

\* every response is ok and carries one point
ResolveOk ==
  \E i \in 1..Len(inflight) :
    \E id \in inflight[i].pending :
      Resolve(i, id, "ok",
              IF inflight[i].dataSource = "density"
                THEN <<DensityPoint>> ELSE <<DiversityPoint>>)

\* the first viewport with one edge moved by exactly the tolerance, or by
\* just more than it
EdgeMoved(e, by) == [i \in 1..4 |-> InitialView("undefined").bounds[i] + (IF i = e THEN by ELSE 0)]
MovedBounds ==
  {InitialView("undefined").bounds}
    \cup {EdgeMoved(e, by) : e \in 1..4, by \in {Tolerance, Tolerance + 1}}
\* every such viewport at the first zoom (level 1), and two of them, within
\* the tolerance of one another, at a zoom of level 2
MovedViews ==
  {[bounds |-> b, zoom |-> 30] : b \in MovedBounds}
    \cup {[bounds |-> b, zoom |-> 70] : b \in {EdgeMoved(1, 0), EdgeMoved(1, Tolerance)}}

\* Viewport tracker: the user pans and zooms the loaded map, once the
\* responses of the last cycle are in, among viewports that differ from one
\* another by at most, or by more than, the tolerance on one or two edges;
\* the clock advances from signal to due time.
NextViewport ==
  \/ Load
  \/ Render
  \/ \E v \in MovedViews : loadFired /\ inflight = <<>> /\ MapMove(v)
  \/ Tick(DebounceWait)
  \/ TimerFire(1)
  \/ handleManualPrecisionToggle
  \/ ResolveOk

SpecViewport == Init /\ [][NextViewport]_vars

\* a pan by more than the tolerance, a pan back to within the tolerance of
\* it, and a zoom to level 2 (moveend and zoomend)
DebounceViews ==
  {[bounds |-> EdgeMoved(1, Tolerance + 1), zoom |-> 30],
   [bounds |-> EdgeMoved(1, 1), zoom |-> 30],
   [bounds |-> EdgeMoved(1, 0), zoom |-> 70]}

\* Debounce and map sessions: the user pans and zooms the map, before or
\* after its load event, while the clock advances in steps of TickMs; the
\* responses of the last cycle are in by the next move; the metadata
\* arrives at any moment, with a centre (the map is torn down and
\* set up again) or without one.  The callback of a due timer runs before
\* the next input event is dispatched.
NextDebounce ==
  \/ Load
  \/ Render
  \/ \E v \in DebounceViews :
       0 \notin Remaining /\ Settled /\ inflight = <<>> /\ MapMove(v)
  \/ Tick(TickMs)
  \/ \E s \in Sessions : TimerFire(s)
  \/ \E outcome \in {"center", "empty"} : MetadataArrive(outcome)
  \/ ResolveOk

SpecDebounce == Init /\ [][NextDebounce]_vars

\* Layer synchroniser: on the loaded map, once the responses of the last
\* cycle are in, the user toggles two time windows and two diversity
\* scores, and switches the display mode, the data source and the render
\* style of the diversity heatmap.
NextLayers ==
  \/ Load
  \/ Render
  \/ \E id \in {0, 1} : inflight = <<>> /\ handleTimeWindowChange(id)
  \/ \E score \in {1, 2} : inflight = <<>> /\ handleDiversityScoreChange(score)
  \/ \E mode \in {"fill", "heatmap"} : inflight = <<>> /\ handleDisplayModeChange(mode)
  \/ \E source \in {"density", "diversity"} :
       inflight = <<>> /\ handleDataSourceChange(source)
  \/ \E mode \in {"stacked", "perScore"} :
       inflight = <<>> /\ handleDiversityHeatmapModeChange(mode)
  \/ ResolveOk

SpecLayers == Init /\ [][NextLayers]_vars

\* Layer synchroniser, diversity family: on the loaded map, once the
\* responses of the last cycle are in, the user unticks the diversity
\* scores one by one, in any order, down to the empty selection, and
\* switches the display mode, the data source and the render style of the
\* diversity heatmap.
NextDiversity ==
  \/ Load
  \/ Render
  \/ \E score \in rendered.selectedDiversityScores :
       loadFired /\ inflight = <<>> /\ handleDiversityScoreChange(score)
  \/ \E mode \in {"fill", "heatmap"} :
       loadFired /\ inflight = <<>> /\ handleDisplayModeChange(mode)
  \/ \E source \in {"density", "diversity"} :
       loadFired /\ inflight = <<>> /\ handleDataSourceChange(source)
  \/ \E mode \in {"stacked", "perScore"} :
       loadFired /\ inflight = <<>> /\ handleDiversityHeatmapModeChange(mode)
  \/ ResolveOk

SpecDiversity == Init /\ [][NextDiversity]_vars

\* values of the opacity slider (0.0 to 1.0 in steps of 0.05) and of the
\* radius slider (0.2 to 3.0 in steps of 0.1): the default and the maximum
OpacityKnobValues == {DEFAULT_HEATMAP_OPACITY, 20}
RadiusKnobValues == {DEFAULT_RADIUS_SCALE, 30}

\* Layer synchroniser with the heatmap knobs: on the loaded map, once the
\* responses of the last cycle are in, the user moves the opacity and
\* radius sliders, toggles the oldest time window, and switches the
\* display mode, the data source and the render style.
NextKnobs ==
  \/ Load
  \/ Render
  \/ \E value \in OpacityKnobValues :
       loadFired /\ inflight = <<>> /\ handleHeatmapOpacityChange(value)
  \/ \E value \in RadiusKnobValues :
       loadFired /\ inflight = <<>> /\ handleHeatmapRadiusScaleChange(value)
  \/ \E mode \in {"fill", "heatmap"} :
       loadFired /\ inflight = <<>> /\ handleDisplayModeChange(mode)
  \/ \E source \in {"density", "diversity"} :
       loadFired /\ inflight = <<>> /\ handleDataSourceChange(source)
  \/ \E mode \in {"stacked", "perScore"} :
       loadFired /\ inflight = <<>> /\ handleDiversityHeatmapModeChange(mode)
  \/ loadFired /\ inflight = <<>> /\ handleTimeWindowChange(NumTimeWindows - 1)
  \/ ResolveOk

SpecKnobs == Init /\ [][NextKnobs]_vars

\* The layer effect around the life of the map: the user switches the
\* display mode and the data source before the map has loaded, while it is
\* loaded and around the arrival of the metadata that replaces the map.
NextReconcile ==
  \/ Load
  \/ Render
  \/ MetadataArrive("center")
  \/ \E mode \in {"fill", "heatmap"} : inflight = <<>> /\ handleDisplayModeChange(mode)
  \/ \E source \in {"density", "diversity"} :
       inflight = <<>> /\ handleDataSourceChange(source)
  \/ ResolveOk

SpecReconcile == Init /\ [][NextReconcile]_vars

\* The metadata request answered in each way it can be, around the load of
\* the map and a change of the data source
NextMetadata ==
  \/ Load
  \/ Render
  \/ \E response \in MetadataResponses : MetadataResponse(response)
  \/ \E source \in {"density", "diversity"} : handleDataSourceChange(source)
  \/ ResolveOk

SpecMetadata == Init /\ [][NextMetadata]_vars

\* Points a response may hold: two places with values of their own, one of
\* them west of Greenwich and south of the equator
PointsOf(dataSource) ==
  IF dataSource = "density"
    THEN {[lon |-> 500, lat |-> 500, density |-> 10],
          [lon |-> -1200, lat |-> -700, density |-> 255]}
    ELSE {[lon |-> 500, lat |-> 500, score |-> 1],
          [lon |-> -1200, lat |-> -700, score |-> 4]}

\* the response arrays of at most MaxPoints points
PointData(dataSource) ==
  UNION {[1..n -> PointsOf(dataSource)] : n \in 0..MaxPoints}

\* a request is answered with some array of points
ResolveData ==
  \E i \in 1..Len(inflight) :
    \E id \in inflight[i].pending :
      \E data \in PointData(inflight[i].dataSource) : Resolve(i, id, "ok", data)

\* The features made of the responses: the user switches the display mode
\* and the data source and sets the precision by hand, and every request
\* is answered with any of the response arrays.
NextFeatures ==
  \/ Load
  \/ Render
  \/ \E mode \in {"fill", "heatmap"} :
       loadFired /\ inflight = <<>> /\ handleDisplayModeChange(mode)
  \/ \E source \in {"density", "diversity"} :
       loadFired /\ inflight = <<>> /\ handleDataSourceChange(source)
  \/ loadFired /\ inflight = <<>> /\ ~rendered.manualPrecisionEnabled
       /\ handleManualPrecisionToggle
  \/ \E position \in MIN_API_LEVEL..MAX_API_LEVEL :
       /\ loadFired /\ inflight = <<>>
       /\ handleManualPrecisionChange(rangeValue(position, MIN_API_LEVEL, MAX_API_LEVEL))
  \/ ResolveData

SpecFeatures == Init /\ [][NextFeatures]_vars

\* the positions of the opacity slider: 0.0 to 1.0 in steps of 0.05 (App line 243)
OpacityKnobPositions == 0..20

\* The opacity of the density heatmap layers: in the heatmap mode the user
\* ticks further time windows and moves the opacity slider over its range.
NextOpacity ==
  \/ Load
  \/ Render
  \/ \E value \in OpacityKnobPositions :
       loadFired /\ inflight = <<>> /\ handleHeatmapOpacityChange(value)
  \/ \E id \in TIME_WINDOW_IDS \ rendered.selectedTimeWindows :
       loadFired /\ inflight = <<>> /\ handleTimeWindowChange(id)
  \/ ResolveOk

SpecOpacity == Init /\ [][NextOpacity]_vars

\* the positions of the radius slider: 0.2 to 3.0 in steps of 0.1 (App line 239)
RadiusKnobPositions == 2..30

\* The radius of the heatmap layers: in the heatmap mode the user moves the
\* radius slider over its range, ticks further time windows, and, with the
\* slider back at its default, switches the data source and the render
\* style of the diversity heatmap.
NextRadius ==
  \/ Load
  \/ Render
  \/ \E value \in RadiusKnobPositions :
       loadFired /\ inflight = <<>> /\ handleHeatmapRadiusScaleChange(value)
  \/ \E id \in TIME_WINDOW_IDS \ rendered.selectedTimeWindows :
       loadFired /\ inflight = <<>> /\ handleTimeWindowChange(id)
  \/ \E source \in {"density", "diversity"} :
       /\ loadFired /\ inflight = <<>>
       /\ rendered.heatmapRadiusScale = DEFAULT_RADIUS_SCALE
       /\ handleDataSourceChange(source)
  \/ \E mode \in {"stacked", "perScore"} :
       /\ loadFired /\ inflight = <<>>
       /\ rendered.heatmapRadiusScale = DEFAULT_RADIUS_SCALE
       /\ handleDiversityHeatmapModeChange(mode)
  \/ ResolveOk

SpecRadius == Init /\ [][NextRadius]_vars

\* The paint controls: on the loaded map the user moves the opacity and
\* radius sliders, ticks and unticks two diversity scores and switches the
\* render style of the diversity heatmap, with requests in flight or not,
\* and switches the data source once the responses are in.
NextPaint ==
  \/ Load
  \/ Render
  \/ \E value \in OpacityKnobValues : loadFired /\ handleHeatmapOpacityChange(value)
  \/ \E value \in RadiusKnobValues : loadFired /\ handleHeatmapRadiusScaleChange(value)
  \/ \E score \in {1, 2} : loadFired /\ handleDiversityScoreChange(score)
  \/ \E mode \in {"stacked", "perScore"} :
       loadFired /\ handleDiversityHeatmapModeChange(mode)
  \/ \E source \in {"density", "diversity"} :
       loadFired /\ inflight = <<>> /\ handleDataSourceChange(source)
  \/ ResolveOk

SpecPaint == Init /\ [][NextPaint]_vars

\* Responses that arrive late: on the loaded map the user switches the
\* display mode and sets the precision by hand to the coarsest level, the
\* next one or the finest while requests are in flight, and every request
\* is answered with one point.
NextConversion ==
  \/ Load
  \/ Render
  \/ \E mode \in {"fill", "heatmap"} : loadFired /\ handleDisplayModeChange(mode)
  \/ \E source \in {"density", "diversity"} :
       loadFired /\ inflight = <<>> /\ handleDataSourceChange(source)
  \/ loadFired /\ ~rendered.manualPrecisionEnabled /\ handleManualPrecisionToggle
  \/ \E position \in {MIN_API_LEVEL, MIN_API_LEVEL + 1, MAX_API_LEVEL} :
       /\ loadFired
       /\ handleManualPrecisionChange(rangeValue(position, MIN_API_LEVEL, MAX_API_LEVEL))
  \/ ResolveOk

SpecConversion == Init /\ [][NextConversion]_vars

\* A build with the token and a build without it
InitToken == \E tokenSet \in BOOLEAN : InitFor(tokenSet)

\* The application from its first commit on, whichever the build: the
\* metadata arrives, the map loads, the user switches the data source.
NextToken ==
  \/ Load
  \/ Render
  \/ \E outcome \in {"center", "empty"} : MetadataArrive(outcome)
  \/ \E source \in {"density", "diversity"} : handleDataSourceChange(source)
  \/ \E mode \in {"fill", "heatmap"} : handleDisplayModeChange(mode)
  \/ ResolveOk

SpecToken == InitToken /\ [][NextToken]_vars

\* The initial viewport at every zoom from 0 to MaxZoom
ZoomViews == {[bounds |-> InitialView("undefined").bounds, zoom |-> z] : z \in 0..MaxZoom}

\* The zoom mapping at work: the user zooms from any zoom to any other, and
\* the debounced report turns the zoom into the automatic level.
NextZoom ==
  \/ Load
  \/ Render
  \/ \E v \in ZoomViews :
       loadFired /\ Settled /\ inflight = <<>> /\ timers[mapRef] = <<>> /\ MapMove(v)
  \/ Tick(DebounceWait)
  \/ TimerFire(1)
  \/ ResolveOk

SpecZoom == Init /\ [][NextZoom]_vars

\* Viewports of three precision levels, each with bounds of its own
RequestViews ==
  {[bounds |-> <<200, 300, 700, 800>>, zoom |-> 85],
   [bounds |-> <<-4000, 1000, -3500, 1600>>, zoom |-> 165]}

\* The requests the application sends: the user pans and zooms, ticks and
\* unticks two time windows, and switches the manual precision on and off
\* and drags its slider over the whole range of the control.
NextRequests ==
  \/ Load
  \/ Render
  \/ \E v \in RequestViews :
       loadFired /\ Settled /\ inflight = <<>> /\ timers[mapRef] = <<>> /\ MapMove(v)
  \/ Tick(DebounceWait)
  \/ TimerFire(1)
  \/ \E id \in {0, 1} : loadFired /\ inflight = <<>> /\ handleTimeWindowChange(id)
  \/ loadFired /\ inflight = <<>> /\ handleManualPrecisionToggle
  \/ \E position \in (MIN_API_LEVEL - 1)..(MAX_API_LEVEL + 1) :
       /\ loadFired /\ inflight = <<>>
       /\ handleManualPrecisionChange(rangeValue(position, MIN_API_LEVEL, MAX_API_LEVEL))
  \/ ResolveOk

SpecRequests == Init /\ [][NextRequests]_vars

(***************************************************************************)
(* Properties                                                              *)
(***************************************************************************)
Outcomes(cyc) ==
  {<<"ok", data>> : data \in ResponseData(cyc.dataSource)} \cup {<<"failed", <<>>>>}

\* C1: when a request for a source resumes after a request issued later for
\* the same source has already written that source, the content of the
\* source does not change.
C1_StaleResponseDiscarded ==
  [][\A i \in 1..Len(inflight) :
       \A id \in inflight[i].overtaken :
         \A o \in Outcomes(inflight[i]) :
           Resolve(i, id, o[1], o[2]) => sources'[id] = sources[id]]_vars

\* C2: once the state is committed and no request is in flight, the source
\* of every unselected time window is empty, the diversity source is empty
\* while the data source is density, and every density source is empty
\* while it is diversity.
C2_InactiveSourcesEmpty ==
  (Settled /\ inflight = <<>> /\ DOMAIN sources # {}) =>
    /\ \A id \in TIME_WINDOW_IDS \ st.selectedTimeWindows :
         sources[DensitySource(id)] = <<>>
    /\ st.dataSource = "density" => sources[DiversitySource] = <<>>
    /\ st.dataSource = "diversity" =>
         \A id \in TIME_WINDOW_IDS : sources[DensitySource(id)] = <<>>

\* C3: while a request is in flight, isLoading is true.
C3_LoadingWhileInFlight == inflight # <<>> => isLoading

\* the commit at hand renders a state that differs from the last commit in
\* the display mode alone
OnlyDisplayModeChanged ==
  /\ st.displayMode # rendered.displayMode
  /\ st = [rendered EXCEPT !.displayMode = st.displayMode]

ExceedsTolerance(a, b) ==
  \E e \in 1..4 : a[e] - b[e] > Tolerance \/ b[e] - a[e] > Tolerance

\* the debounced callback reports the viewport of the camera from a
\* committed state with published bounds
SettledReport == TimerFire(1) /\ Settled /\ st.currentBounds # NullBounds

\* the commit at hand starts a fetch cycle with this level and these bounds
StartsCycle(level, bounds) ==
  /\ Len(inflight') = Len(inflight) + 1
  /\ inflight'[Len(inflight')].level = level
  /\ inflight'[Len(inflight')].bounds = bounds
  /\ inflight'[Len(inflight')].pending = RequestedSources(st)

\* C5: a viewport reported at an unchanged precision level is published,
\* and the commit that follows starts a fetch cycle with the new bounds, when
\* some edge differs from the published bounds by more than the tolerance;
\* when no edge does, the report changes no state, so that no commit and no
\* fetch cycle follows.
C5_ToleranceDecidesRefetch ==
  [][/\ (SettledReport /\ mapboxZoomToApiLevel(camera.zoom) = st.autoCalculatedApiLevel) =>
          IF ExceedsTolerance(camera.bounds, st.currentBounds)
            THEN st' = [st EXCEPT !.currentBounds = camera.bounds]
            ELSE st' = st
     /\ (/\ Render
         /\ st.currentBounds # rendered.currentBounds
         /\ FetchGuard(st, mapRef)
         /\ RequestedSources(st) # {}) =>
          StartsCycle(st.currentApiLevel, st.currentBounds)
     /\ (Render /\ FetchDeps(st) = FetchDeps(rendered)) => inflight' = inflight]_vars

\* Bounds beyond the tolerance of the first viewport are published and a
\* later report within the tolerance of them has left them in place.
C5_Witness ==
  /\ Settled
  /\ st.currentBounds = EdgeMoved(1, Tolerance + 1)
  /\ camera.bounds = EdgeMoved(1, Tolerance)
  /\ timers[1] = <<>>
  /\ firedInBurst[1] = 1

\* C6: with manual override disabled, a report whose zoom maps to another
\* level records the new level; the commit that follows makes it the
\* effective level, and the commit after that starts a fetch cycle carrying
\* it, whether or not the bounds changed.
C6_LevelChangeRefetches ==
  [][/\ (SettledReport /\ ~st.manualPrecisionEnabled) =>
          st'.autoCalculatedApiLevel = mapboxZoomToApiLevel(camera.zoom)
     /\ (Render /\ ~st.manualPrecisionEnabled) =>
          st'.currentApiLevel = st.autoCalculatedApiLevel
     /\ (/\ Render
         /\ st.currentApiLevel # rendered.currentApiLevel
         /\ FetchGuard(st, mapRef)
         /\ RequestedSources(st) # {}) =>
          StartsCycle(st.currentApiLevel, st.currentBounds)]_vars

\* A cycle at level 2 is out for the bounds published at level 1: only the
\* level changed.
C6_Witness ==
  /\ Settled
  /\ ~st.manualPrecisionEnabled
  /\ st.currentBounds = InitialView("undefined").bounds
  /\ camera.bounds = EdgeMoved(1, Tolerance)
  /\ \E i \in 1..Len(inflight) :
       inflight[i].level = 2 /\ inflight[i].bounds = st.currentBounds

\* a pan or zoom of session s is signalled to its debounced handler
Signalled(s) == mapRef = s /\ \E v \in DebounceViews : MapMove(v)

\* C7: the debounced handler of a map session runs its callback only when
\* exactly 500 ms have passed since the last moveend or zoomend of the
\* session, and never a second time for that signal; time passes beyond
\* those 500 ms, and a signal starts a new burst, only after the callback
\* of the burst before has run exactly once.
C7_DebounceFiresOnceAfterBurst ==
  [][\A s \in Sessions :
       /\ TimerFire(s) => sinceSignal[s] = DebounceWait /\ firedInBurst[s] = 0
       /\ (sinceSignal[s] = DebounceWait /\ sinceSignal'[s] > DebounceWait) =>
            firedInBurst[s] = 1 /\ timers[s] = <<>>
       /\ (Signalled(s) /\ timeout[s] # "null" /\ sinceSignal[s] >= DebounceWait) =>
            firedInBurst[s] = 1 /\ timers[s] = <<>>]_vars

\* The callback of session 1 has just run, once, 500 ms after the last of
\* two or more moves that followed one another within 500 ms.
C7_Witness ==
  /\ burstMoves[1] = 2
  /\ sinceSignal[1] = DebounceWait
  /\ firedInBurst[1] = 1
  /\ timers[1] = <<>>

\* C8: the debounced handler of a map session has at most one timer
\* pending, the one armed by the session's last signal (every timer armed
\* before it was cleared), and no signal is followed by two runs of the
\* callback.
C8_SingleSlotTimer ==
  \A s \in Sessions :
    /\ Len(timers[s]) <= 1
    /\ firedInBurst[s] <= 1
    /\ timers[s] # <<>> => timers[s][1] = DebounceWait - sinceSignal[s]

\* A zoom (moveend and zoomend at once) has just been signalled while the
\* timer of an earlier move was pending: one timer is pending, armed now.
C8_Witness ==
  /\ burstMoves[1] = 2
  /\ camera.zoom = 70
  /\ sinceSignal[1] = 0
  /\ timers[1] = <<DebounceWait>>

\* C9 as claimed: the load event of every map session publishes the bounds
\* and the zoom-derived level of the map without a tolerance comparison.
C9_EveryLoadPublishes ==
  [][Load => /\ st'.currentBounds = camera.bounds
             /\ st'.autoCalculatedApiLevel = mapboxZoomToApiLevel(camera.zoom)]_vars

\* C9: the load event calls the viewport callback at once, without arming
\* a timer: the zoom-derived level and the map instance are published, and
\* the bounds are published without a tolerance comparison when the
\* callback has no published bounds; when it has (a later map session, or a
\* debounced report ahead of the load event) the bounds are published only
\* if an edge differs by more than the tolerance.  At most one load event
\* of a run finds no bounds published.
C9_LoadPublishesWhenNoBounds ==
  [][Load =>
       /\ onMapIdleRef.currentBounds = NullBounds => st'.currentBounds = camera.bounds
       /\ onMapIdleRef.currentBounds # NullBounds =>
            st'.currentBounds =
              IF ExceedsTolerance(camera.bounds, onMapIdleRef.currentBounds)
                THEN camera.bounds ELSE st.currentBounds
       /\ st'.autoCalculatedApiLevel = mapboxZoomToApiLevel(camera.zoom)
       /\ st'.mapInstance = mapRef
       /\ timers' = timers
       /\ unconditionalLoads' <= 1]_vars

\* The load event of the second map session has found no bounds published
\* (the first map was torn down before it loaded) and has published the
\* viewport of the new map.
C9_Witness ==
  /\ mapRef = 2
  /\ loadFired
  /\ unconditionalLoads = 1
  /\ rendered.currentBounds = NullBounds
  /\ st.currentBounds = InitialView("center").bounds
  /\ st.autoCalculatedApiLevel = mapboxZoomToApiLevel(InitialView("center").zoom)

\* the layers are as the layer visibility effect of the last commit left them
Reconciled == rendered.isMapLoaded /\ DOMAIN layers # {}

\* C10 as claimed: after a reconciliation the fill layer of a time window
\* or of a diversity score is visible exactly when the category is selected
\* and the display mode is fill.
C10_FillVisibleIffSelectedAndFill ==
  Reconciled =>
    /\ \A id \in TIME_WINDOW_IDS :
         layers[FillDensity(id)].visibility = "visible" <=>
           (id \in rendered.selectedTimeWindows /\ rendered.displayMode = "fill")
    /\ \A score \in DIVERSITY_SCORES :
         layers[FillDiversity(score)].visibility = "visible" <=>
           (score \in rendered.selectedDiversityScores /\ rendered.displayMode = "fill")

\* C10: after a reconciliation the fill layer of a category is visible
\* exactly when the category is selected, the display mode is fill and the
\* family of the category (density for a time window, diversity for a
\* score) is the active data source.
C10_FillVisibleIffSelectedFillAndActive ==
  Reconciled =>
    /\ \A id \in TIME_WINDOW_IDS :
         layers[FillDensity(id)].visibility = "visible" <=>
           /\ id \in rendered.selectedTimeWindows
           /\ rendered.displayMode = "fill"
           /\ rendered.dataSource = "density"
    /\ \A score \in DIVERSITY_SCORES :
         layers[FillDiversity(score)].visibility = "visible" <=>
           /\ score \in rendered.selectedDiversityScores
           /\ rendered.displayMode = "fill"
           /\ rendered.dataSource = "diversity"

\* In fill mode with the density family active, the fill layer of the
\* selected window 1 is visible, that of the deselected window 0 is hidden,
\* and the fill layer of the selected score 2 is hidden while that score's
\* family is inactive.
C10_Witness ==
  /\ Reconciled
  /\ rendered.displayMode = "fill"
  /\ rendered.dataSource = "density"
  /\ rendered.selectedTimeWindows = {1}
  /\ 2 \in rendered.selectedDiversityScores
  /\ layers[FillDensity(1)].visibility = "visible"
  /\ layers[FillDensity(0)].visibility = "none"
  /\ layers[FillDiversity(2)].visibility = "none"

\* C11 as claimed: after a reconciliation the heatmap layer of a time
\* window or of a diversity score is visible exactly when the category is
\* selected, the display mode is heatmap and the render style is per-category.
C11_HeatmapVisibleIffSelectedHeatmapPerCategory ==
  Reconciled =>
    /\ \A id \in TIME_WINDOW_IDS :
         layers[HeatmapDensity(id)].visibility = "visible" <=>
           /\ id \in rendered.selectedTimeWindows
           /\ rendered.displayMode = "heatmap"
           /\ rendered.diversityHeatmapMode = "perScore"
    /\ \A score \in DIVERSITY_SCORES :
         layers[PerScoreDiversity(score)].visibility = "visible" <=>
           /\ score \in rendered.selectedDiversityScores
           /\ rendered.displayMode = "heatmap"
           /\ rendered.diversityHeatmapMode = "perScore"

\* C11: after a reconciliation the heatmap layer of a time window is
\* visible exactly when the window is selected, the display mode is heatmap
\* and density is the active data source, whatever the render style; the
\* heatmap layer of a diversity score is visible exactly when the score is
\* selected, the display mode is heatmap, the render style is per-category
\* and diversity is the active data source.
C11_HeatmapVisibleIffSelectedHeatmapAndActive ==
  Reconciled =>
    /\ \A id \in TIME_WINDOW_IDS :
         layers[HeatmapDensity(id)].visibility = "visible" <=>
           /\ id \in rendered.selectedTimeWindows
           /\ rendered.displayMode = "heatmap"
           /\ rendered.dataSource = "density"
    /\ \A score \in DIVERSITY_SCORES :
         layers[PerScoreDiversity(score)].visibility = "visible" <=>
           /\ score \in rendered.selectedDiversityScores
           /\ rendered.displayMode = "heatmap"
           /\ rendered.diversityHeatmapMode = "perScore"
           /\ rendered.dataSource = "diversity"

\* In heatmap mode with the per-category render style and the diversity
\* family active, the heatmap layer of the selected score 2 is visible, that
\* of the deselected score 1 is hidden, and the heatmap layer of the
\* selected window 0 is hidden while its family is inactive.
C11_Witness ==
  /\ Reconciled
  /\ rendered.displayMode = "heatmap"
  /\ rendered.dataSource = "diversity"
  /\ rendered.diversityHeatmapMode = "perScore"
  /\ 0 \in rendered.selectedTimeWindows
  /\ 1 \notin rendered.selectedDiversityScores
  /\ layers[PerScoreDiversity(2)].visibility = "visible"
  /\ layers[PerScoreDiversity(1)].visibility = "none"
  /\ layers[HeatmapDensity(0)].visibility = "none"

\* C12 as claimed: after a reconciliation the stacked heatmap layer is
\* visible exactly when the display mode is heatmap, the render style is
\* stacked and at least one diversity score is selected.
C12_StackedVisibleIffHeatmapStackedSelected ==
  Reconciled =>
    (layers[StackedDiversity].visibility = "visible" <=>
       /\ rendered.displayMode = "heatmap"
       /\ rendered.diversityHeatmapMode = "stacked"
       /\ rendered.selectedDiversityScores # {})

\* C12: after a reconciliation the stacked heatmap layer is visible exactly
\* when the display mode is heatmap, the render style is stacked and
\* diversity is the active data source, whether or not a score is selected.
C12_StackedVisibleIffHeatmapStackedActive ==
  Reconciled =>
    (layers[StackedDiversity].visibility = "visible" <=>
       /\ rendered.displayMode = "heatmap"
       /\ rendered.diversityHeatmapMode = "stacked"
       /\ rendered.dataSource = "diversity")

\* The stacked layer is visible with no score selected.
C12_Witness ==
  /\ Reconciled
  /\ rendered.displayMode = "heatmap"
  /\ rendered.diversityHeatmapMode = "stacked"
  /\ rendered.dataSource = "diversity"
  /\ rendered.selectedDiversityScores = {}
  /\ layers[StackedDiversity].visibility = "visible"

\* the stacked layer is what the last reconciliation made of it in heatmap
\* mode with the stacked render style and the diversity family active
StackedShown ==
  /\ Reconciled
  /\ rendered.displayMode = "heatmap"
  /\ rendered.diversityHeatmapMode = "stacked"
  /\ rendered.dataSource = "diversity"

\* C13: in heatmap mode with the stacked render style the stacked layer is
\* visible and its filter admits a diversity feature exactly when the score
\* of the feature is selected; with no score selected it admits no feature.
C13_StackedFilterAdmitsSelected ==
  StackedShown =>
    /\ layers[StackedDiversity].visibility = "visible"
    /\ \A score \in DIVERSITY_SCORES :
         Admits(layers[StackedDiversity].filter, [score |-> score]) <=>
           score \in rendered.selectedDiversityScores

\* With no score selected the stacked layer is visible and its filter
\* admits none of the scores, so that the feature its source holds is not
\* drawn.
C13_Witness ==
  /\ StackedShown
  /\ rendered.selectedDiversityScores = {}
  /\ layers[StackedDiversity].visibility = "visible"
  /\ sources[DiversitySource] # <<>>
  /\ \A j \in 1..Len(sources[DiversitySource]) :
       ~Admits(layers[StackedDiversity].filter, sources[DiversitySource][j].properties)

\* C14: the layers a reconciliation has left are a fixed point of it: run
\* again with the same selection sets, data source, display mode, render
\* style and knob values, it leaves the visibility, the filter and the paint
\* of every layer as they are.
C14_ReconcileIdempotent ==
  Reconciled =>
    Reconcile(layers, rendered, heatmapOpacityRef, heatmapRadiusScaleRef) = layers

\* The heatmap layer of window 0 is visible with the opacity and the radius
\* of both knobs at their maximum, after the diversity layers have been
\* painted and hidden again.
C14_Witness ==
  /\ Reconciled
  /\ rendered.dataSource = "density"
  /\ rendered.displayMode = "heatmap"
  /\ heatmapOpacityRef = 20
  /\ heatmapRadiusScaleRef = 30
  /\ layers[HeatmapDensity(0)].visibility = "visible"
  /\ layers[HeatmapDensity(0)].heatmapOpacity = HEATMAP_RELATIVE_MAX_OPACITY * 20
  /\ layers[HeatmapDensity(0)].heatmapRadius.scale = 30
  /\ layers[StackedDiversity].visibility = "none"
  /\ layers[StackedDiversity].heatmapOpacity # 0


\* C15: once the first load event has fired, no step removes or recreates the
\* map instance, a layer or a source: the map handle and the sets of layer and
\* source ids never change again.  The arrival of region metadata carrying a
\* centre changes initialCenter, the map setup effect's only dependency, and
\* the next commit tears the loaded map down and constructs a second one.
C15_MapLayersSourcesCreatedOnce ==
  [][loadFired => /\ mapRef' = mapRef
                  /\ DOMAIN layers' = DOMAIN layers
                  /\ DOMAIN sources' = DOMAIN sources]_vars

\* C16: after the teardown of a map session nothing of it is left: every
\* layer and every source the session added has been removed from its map,
\* the load, moveend, zoomend and error listeners are detached, the map
\* handle is null and the loaded flag is false.
C16_TeardownLeavesNothing ==
  \A i \in 1..Len(tornDown) :
    /\ tornDown[i].layers = {}
    /\ tornDown[i].sources = {}
    /\ tornDown[i].listeners = {}
    /\ tornDown[i].mapRef = 0
    /\ ~tornDown[i].isMapLoaded
    /\ listeners[i] = {}

\* the first session was torn down after its load event had added the layers
\* and sources, and the second map has not loaded yet
C16_Witness ==
  /\ Len(tornDown) = 1
  /\ mapRef = 2
  /\ ~loadFired
  /\ unconditionalLoads = 1
  /\ listeners[2] = MapEvents
  /\ ~st.isMapLoaded

\* whether the selections of s ask for the layer id to be shown
ShouldShow(id, s) ==
  CASE id[1] = "fill-layer-density" ->
         s.dataSource = "density" /\ s.displayMode = "fill" /\ id[2] \in s.selectedTimeWindows
    [] id[1] = "heatmap-layer-density" ->
         s.dataSource = "density" /\ s.displayMode = "heatmap" /\ id[2] \in s.selectedTimeWindows
    [] id[1] = "fill-layer-diversity" ->
         s.dataSource = "diversity" /\ s.displayMode = "fill"
           /\ id[2] \in s.selectedDiversityScores
    [] id[1] = "heatmap-layer-diversity-per-score" ->
         s.dataSource = "diversity" /\ s.displayMode = "heatmap"
           /\ s.diversityHeatmapMode = "perScore" /\ id[2] \in s.selectedDiversityScores
    [] id[1] = "heatmap-layer-diversity-stacked" ->
         s.dataSource = "diversity" /\ s.displayMode = "heatmap"
           /\ s.diversityHeatmapMode = "stacked"

\* C17: a run of the layer effect (a commit that changes one of its
\* dependencies) makes no styling call on a layer the map does not have,
\* whether the map is not loaded yet or has just been replaced; and a run
\* that finds the layers on the map styles every one of them, leaving each
\* with the visibility the committed selections ask for and with the paint
\* the effect sets for it.
C17_ReconcileSkipsMissingLayers ==
  [][(rendered' # rendered /\ LayerDeps(rendered') # LayerDeps(rendered)) =>
       /\ styled' \subseteq DOMAIN layers'
       /\ DOMAIN layers' # {} =>
            /\ styled' = DOMAIN layers'
            /\ \A id \in DOMAIN layers' :
                 /\ layers'[id].visibility = "visible" <=> ShouldShow(id, rendered')
                 /\ layers'[id] = ReconcileLayer(id, layers'[id], rendered',
                                                 heatmapOpacityRef', heatmapRadiusScaleRef')]_vars

\* the second map has loaded and its layers are styled; the effect had run
\* before on this map when it had no layer yet (the commit of the flag the
\* cleanup cleared)
C17_Witness ==
  /\ mapRef = 2
  /\ loadFired
  /\ rendered.isMapLoaded
  /\ styled = LayerIds
  /\ \E id \in DOMAIN layers : layers[id].visibility = "visible"

\* the request of cycle i for the source id fails
RequestFails(i, id) == Resolve(i, id, "failed", <<>>)

\* the commit runs the fetch effect past its guard
FetchEffectRuns ==
  /\ rendered' # rendered
  /\ FetchDeps(rendered') # FetchDeps(rendered)
  /\ FetchGuard(rendered', mapRef')

\* C18: when a data request fails, the source of its category is left
\* holding an empty collection, the application state is untouched (the
\* continuation catches the failure), every other source and every other
\* pending request, of the same cycle and of the others, is as it was, and
\* the cycle ends as it would have on success; and a later change of the
\* viewport or of the selection that runs the fetch effect while the
\* category is still selected requests the failed category again.
C18_FailedRequestClearsAndRetries ==
  [][/\ \A i \in 1..Len(inflight) : \A id \in inflight[i].pending :
          RequestFails(i, id) =>
            LET left == inflight[i].pending \ {id}
            IN /\ id \in DOMAIN sources' /\ sources'[id] = <<>>
               /\ \A other \in DOMAIN sources \ {id} : sources'[other] = sources[other]
               /\ st' = st
               /\ IF left = {}
                    THEN /\ Len(inflight') = Len(inflight) - 1
                         /\ ~isLoading'
                    ELSE /\ Len(inflight') = Len(inflight)
                         /\ inflight'[i].pending = left
                         /\ isLoading' = isLoading
                         /\ \A j \in 1..Len(inflight) :
                              j # i => inflight'[j].pending = inflight[j].pending
     /\ FetchEffectRuns =>
          \A id \in failed \cap RequestedSources(rendered') :
            /\ inflight' # <<>>
            /\ id \in inflight'[Len(inflight')].pending
            /\ inflight'[Len(inflight')].bounds = rendered'.currentBounds]_vars

\* the request of a category failed, its source is empty, and after a change
\* of the selection a cycle is in flight that requests the category again
\* together with another one
C18_Witness ==
  \E id \in failed :
    /\ id \in DOMAIN sources
    /\ sources[id] = <<>>
    /\ Len(inflight) = 1
    /\ id \in inflight[1].pending
    /\ inflight[1].pending # {id}
    /\ st = rendered

\* C19: a run of the fetch effect in the density family sends one request
\* for each selected time window and none for any other: the query strings
\* of the cycle it starts are exactly, one for one, those made of a selected
\* window's id, the committed precision level and the four edges of the
\* committed bounds; with no window selected it sends nothing.
C19_OneRequestPerSelectedWindow ==
  [][(FetchEffectRuns /\ rendered'.dataSource = "density") =>
       LET sel == rendered'.selectedTimeWindows
           b == rendered'.currentBounds
       IN IF sel = {}
            THEN inflight' = inflight
            ELSE /\ Len(inflight') = Len(inflight) + 1
                 /\ LET cyc == inflight'[Len(inflight')]
                    IN /\ Cardinality(cyc.pending) = Cardinality(sel)
                       /\ {DensityRequest(cyc, id) : id \in cyc.pending}
                            = {[time_window_id |-> w,
                                level |-> rendered'.currentApiLevel,
                                min_lon |-> b[1], min_lat |-> b[2],
                                max_lon |-> b[3], max_lat |-> b[4]] : w \in sel}]_vars

\* a density cycle is in flight for two of the four windows, at a level and
\* with bounds that are not the initial ones
C19_Witness ==
  /\ Len(inflight) = 1
  /\ inflight[1].dataSource = "density"
  /\ inflight[1].pending = {DensitySource(0), DensitySource(1)}
  /\ inflight[1].level > MIN_API_LEVEL
  /\ inflight[1].bounds \in {v.bounds : v \in RequestViews}
  /\ rendered.selectedTimeWindows = {0, 1}

\* C20: the precision level of every request in flight, and the effective
\* level of the application state from which the next request would take
\* it, is an integer from MIN_API_LEVEL to MAX_API_LEVEL, whether the zoom
\* mapping or the manual override supplied it; so is the manual level
\* itself, which the slider confines to that range.
C20_LevelWithinRange ==
  /\ \A i \in 1..Len(inflight) : inflight[i].level \in MIN_API_LEVEL..MAX_API_LEVEL
  /\ st.currentApiLevel \in MIN_API_LEVEL..MAX_API_LEVEL
  /\ rendered.currentApiLevel \in MIN_API_LEVEL..MAX_API_LEVEL
  /\ st.manualPrecisionLevel \in MIN_API_LEVEL..MAX_API_LEVEL
  /\ st.autoCalculatedApiLevel \in MIN_API_LEVEL..MAX_API_LEVEL

\* a request in flight carries the highest level, set by hand while the zoom
\* of the map stands for the lowest
C20_Witness ==
  /\ Len(inflight) = 1
  /\ inflight[1].level = MAX_API_LEVEL
  /\ rendered.manualPrecisionEnabled
  /\ rendered.manualPrecisionLevel = MAX_API_LEVEL
  /\ rendered.autoCalculatedApiLevel = MIN_API_LEVEL
  /\ mapboxZoomToApiLevel(camera.zoom) = MIN_API_LEVEL

\* C21: mapboxZoomToApiLevel returns MIN_API_LEVEL for every zoom below the
\* lowest threshold (zoom 4), MAX_API_LEVEL for every zoom at or above the
\* top threshold (zoom 16), and a level from MIN_API_LEVEL to MAX_API_LEVEL
\* for every zoom; the automatic level of the application is such a level.
C21_ZoomLevelEnds ==
  LET level == mapboxZoomToApiLevel(camera.zoom)
  IN /\ camera.zoom < 40 => level = MIN_API_LEVEL
     /\ camera.zoom >= 160 => level = MAX_API_LEVEL
     /\ level \in MIN_API_LEVEL..MAX_API_LEVEL
     /\ st.autoCalculatedApiLevel \in MIN_API_LEVEL..MAX_API_LEVEL

\* the map stands just below the lowest threshold after having stood at the
\* top one: the report of the zoom has brought the automatic level from
\* MAX_API_LEVEL, still the committed effective level, down to MIN_API_LEVEL
C21_Witness ==
  /\ camera.zoom = 39
  /\ st.autoCalculatedApiLevel = MIN_API_LEVEL
  /\ rendered.currentApiLevel = MAX_API_LEVEL
  /\ timers[mapRef] = <<>>

\* C22: mapboxZoomToApiLevel is monotonic non-decreasing: the level of a
\* zoom below the zoom of the map is at most the level of the map's zoom,
\* and the level of a zoom above it is at least that level.
C22_ZoomLevelMonotonic ==
  \A z \in 0..MaxZoom :
    /\ z <= camera.zoom => mapboxZoomToApiLevel(z) <= mapboxZoomToApiLevel(camera.zoom)
    /\ z >= camera.zoom => mapboxZoomToApiLevel(z) >= mapboxZoomToApiLevel(camera.zoom)

\* the user has zoomed in across the threshold of zoom 13, and the report of
\* the zoom has raised the automatic level from 3, still committed, to 4
C22_Witness ==
  /\ camera.zoom = 130
  /\ st.autoCalculatedApiLevel = 4
  /\ rendered.autoCalculatedApiLevel = 3
  /\ timers[mapRef] = <<>>

\* C23: while the token is missing, the error message stands in place of
\* the interface, no map instance exists, the map has no listener, layer or
\* source, and no density or diversity request is or has been in flight.
C23_NoTokenNoMap ==
  ~token =>
    /\ AppView(token) = "error-message"
    /\ mapRef = 0
    /\ \A s \in Sessions : listeners[s] = {}
    /\ layers = EmptyMap
    /\ sources = EmptyMap
    /\ inflight = <<>>
    /\ ~isLoading
    /\ ~loadFired
    /\ tornDown = <<>>

\* without a token, metadata that carries a centre has arrived and has been
\* committed: the event that builds a new map when there is a token
C23_Witness ==
  /\ ~token
  /\ ~metadataPending
  /\ st.appMetadata = "center"
  /\ rendered = st

\* C24: whatever the answer to the metadata request, the continuation ends
\* by setting the metadata state and touches nothing else: the state is
\* never left unset by an escaping exception; a good response sets it to
\* the body, and a 404, another bad status, a network failure and a body
\* that is not JSON all set it to the empty value, not to an error state.
C24_MetadataOutcomes ==
  [][\A response \in MetadataResponses :
       MetadataResponse(response) =>
         /\ ~metadataPending'
         /\ st'.appMetadata # "null"
         /\ response \notin {"ok-center", "ok-plain"} => st'.appMetadata = "empty"
         /\ response = "ok-center" => st'.appMetadata = "center"
         /\ response = "ok-plain" => st'.appMetadata = "plain"
         /\ st' = [st EXCEPT !.appMetadata = st'.appMetadata]
         /\ UNCHANGED <<rendered, isLoading, mapRef, layers, sources, inflight>>]_vars

\* a request that did not succeed has been answered and committed: the
\* metadata is the empty value, and the map is the one built at the start
C24_Witness ==
  /\ ~metadataPending
  /\ st.appMetadata = "empty"
  /\ rendered = st
  /\ mapRef = 1
  /\ tornDown = <<>>

\* the request of cycle i for the source id is answered with data
Answered(i, id, data) == Resolve(i, id, "ok", data)

\* the value field of a point, as a record of its own
ValueField(point) ==
  IF "density" \in DOMAIN point THEN [density |-> point.density] ELSE [score |-> point.score]

\* C25: in the fill mode, every point of a response, at every precision
\* level from MIN_API_LEVEL to MAX_API_LEVEL, becomes one polygon feature
\* whose ring has five vertices, the first equal to the last, the first
\* four being the four corners of the square centred on (lon, lat) with
\* half-width 0.5 / 10^level degrees, and whose properties are the point's
\* value field, unchanged.
C25_CellPolygonIsCentredSquare ==
  [][\A i \in 1..Len(inflight) : \A id \in inflight[i].pending :
       \A data \in PointData(inflight[i].dataSource) :
         (inflight[i].displayMode = "fill" /\ inflight' # inflight /\ Answered(i, id, data)) =>
           LET level == inflight[i].level
               h == 500000 \div Pow10(level)
           IN /\ level \in MIN_API_LEVEL..MAX_API_LEVEL
              /\ h * Pow10(level) = 500000
              /\ Len(sources'[id]) = Len(data)
              /\ \A j \in 1..Len(data) :
                   LET ring == sources'[id][j].coordinates
                       p == data[j]
                   IN /\ sources'[id][j].type = "Polygon"
                      /\ Len(ring) = 5
                      /\ ring[1] = ring[5]
                      /\ Cardinality({ring[k] : k \in 1..4}) = 4
                      /\ {ring[k] : k \in 1..4}
                           = {<<p.lon + dx, p.lat + dy>> : dx \in {0 - h, h}, dy \in {0 - h, h}}
                      /\ sources'[id][j].properties = ValueField(p)]_vars

\* at the finest level the diversity source holds the cells of two
\* different points, each 10 micro-degrees wide
C25_Witness ==
  /\ rendered.currentApiLevel = MAX_API_LEVEL
  /\ DiversitySource \in DOMAIN sources
  /\ Len(sources[DiversitySource]) = 2
  /\ sources[DiversitySource][1] # sources[DiversitySource][2]
  /\ \A j \in 1..2 :
       /\ sources[DiversitySource][j].type = "Polygon"
       /\ sources[DiversitySource][j].coordinates[2][1]
            - sources[DiversitySource][j].coordinates[1][1] = 10

\* C26: in the heatmap mode, a response array becomes exactly one point
\* feature for each of its points, in the order of the array, the feature
\* of a point having the coordinates (lon, lat) of the point and its value
\* field, density or score, unchanged.
C26_HeatmapPointsKeepOrderAndValue ==
  [][\A i \in 1..Len(inflight) : \A id \in inflight[i].pending :
       \A data \in PointData(inflight[i].dataSource) :
         (inflight[i].displayMode = "heatmap" /\ inflight' # inflight
            /\ Answered(i, id, data)) =>
           /\ Len(sources'[id]) = Len(data)
           /\ \A j \in 1..Len(data) :
                /\ sources'[id][j].type = "Point"
                /\ sources'[id][j].coordinates = <<data[j].lon, data[j].lat>>
                /\ sources'[id][j].properties = ValueField(data[j])]_vars

\* the source of the newest time window holds the point features of two
\* different points, the western one first
C26_Witness ==
  /\ DensitySource(0) \in DOMAIN sources
  /\ Len(sources[DensitySource(0)]) = 2
  /\ sources[DensitySource(0)][1].type = "Point"
  /\ sources[DensitySource(0)][1].coordinates = <<-1200, -700>>
  /\ sources[DensitySource(0)][1].properties = [density |-> 255]
  /\ sources[DensitySource(0)][2].coordinates = <<500, 500>>
  /\ sources[DensitySource(0)][2].properties = [density |-> 10]

\* the density heatmap layers are shown, styled by the last commit
DensityHeatmapShown ==
  Reconciled /\ rendered.dataSource = "density" /\ rendered.displayMode = "heatmap"

\* The opacity applied to the heatmap layer of the window id lies between
\* the least and the greatest relative opacity times the knob, and between
\* 0 and 1 (opacities are in units of 5e-4: 1e-2 relative times 0.05 of knob)
OpacityWithinBounds(id) ==
  LET applied == layers[HeatmapDensity(id)].heatmapOpacity
  IN /\ applied >= HEATMAP_RELATIVE_MIN_OPACITY * rendered.heatmapOpacity
     /\ applied <= HEATMAP_RELATIVE_MAX_OPACITY * rendered.heatmapOpacity
     /\ applied >= 0
     /\ applied <= 100 * 20

\* C27 as stated: for every value of the opacity knob, the opacities applied
\* to the heatmap layers of the selected windows are strictly decreasing in
\* the window's order index, and each lies within its bounds.  At the
\* lowest position of the slider every applied opacity is 0.
C27_OpacityStrictlyDecreasingAtEveryKnob ==
  DensityHeatmapShown =>
    /\ \A id \in rendered.selectedTimeWindows : OpacityWithinBounds(id)
    /\ \A a, b \in rendered.selectedTimeWindows :
         a < b => layers[HeatmapDensity(a)].heatmapOpacity
                    > layers[HeatmapDensity(b)].heatmapOpacity

\* C27, amended: each applied opacity lies within its bounds for every value
\* of the knob, and for every value of the knob above 0 the opacities are
\* strictly decreasing in the window's order index; with the knob at 0
\* they are all 0.
C27_OpacityStrictlyDecreasingAtPositiveKnob ==
  DensityHeatmapShown =>
    /\ \A id \in rendered.selectedTimeWindows : OpacityWithinBounds(id)
    /\ \A a, b \in rendered.selectedTimeWindows :
         a < b => IF rendered.heatmapOpacity > 0
                    THEN layers[HeatmapDensity(a)].heatmapOpacity
                           > layers[HeatmapDensity(b)].heatmapOpacity
                    ELSE /\ layers[HeatmapDensity(a)].heatmapOpacity = 0
                         /\ layers[HeatmapDensity(b)].heatmapOpacity = 0

\* all four windows are shown with the knob at its highest position: the
\* applied opacities are 0.85, 0.70, 0.55 and 0.40
C27_Witness ==
  /\ DensityHeatmapShown
  /\ rendered.selectedTimeWindows = TIME_WINDOW_IDS
  /\ rendered.heatmapOpacity = 20
  /\ \A id \in TIME_WINDOW_IDS : layers[HeatmapDensity(id)].visibility = "visible"
  /\ <<layers[HeatmapDensity(0)].heatmapOpacity, layers[HeatmapDensity(1)].heatmapOpacity,
       layers[HeatmapDensity(2)].heatmapOpacity, layers[HeatmapDensity(3)].heatmapOpacity>>
       = <<1700, 1400, 1100, 800>>

\* the heatmap layers
HeatmapLayerIds ==
  {id \in LayerIds : id[1] \in {"heatmap-layer-density", "heatmap-layer-diversity-per-score",
                                 "heatmap-layer-diversity-stacked"}}

ZoomStops == {BASE_RADIUS_ZOOM_STOPS[k][1] : k \in 1..Len(BASE_RADIUS_ZOOM_STOPS)}

\* C28: at every zoom breakpoint, the radius of every shown heatmap layer,
\* of either family and of every category, evaluated at value 0 is above 0
\* for every position of the radius slider, being 0.6 times the other three
\* factors; and a commit that restyles a shown layer with the slider at the
\* same or a higher position leaves its radius at value 0 no smaller.
C28_RadiusPositiveAndMonotonic ==
  [][\A id \in HeatmapLayerIds : \A zoom \in ZoomStops :
       (id \in DOMAIN layers' /\ layers'[id].visibility = "visible") =>
         LET new == layers'[id].heatmapRadius
         IN /\ RadiusAt(new, zoom, 0) > 0
            /\ RadiusAt(new, zoom, 0)
                 = new.scale * new.age * AtStop(BASE_RADIUS_ZOOM_STOPS, zoom) * 6
            /\ new.scale = heatmapRadiusScaleRef'
            /\ (/\ id \in DOMAIN layers /\ layers[id].visibility = "visible"
                /\ heatmapRadiusScaleRef' >= heatmapRadiusScaleRef)
                 => RadiusAt(new, zoom, 0) >= RadiusAt(layers[id].heatmapRadius, zoom, 0)]_vars

\* the heatmap layer of the oldest window is shown with the slider at its
\* lowest position: at zoom 3 and value 0 its radius is 0.2 x 1.3 x 10 x 0.6
C28_Witness ==
  /\ Reconciled
  /\ rendered.heatmapRadiusScale = 2
  /\ layers[HeatmapDensity(3)].visibility = "visible"
  /\ RadiusAt(layers[HeatmapDensity(3)].heatmapRadius, 3, 0) = 2 * 13 * 10 * 6

\* the effective level is the manual level with the override on and the
\* level derived from the zoom with the override off
LevelAligned(s) ==
  IF s.manualPrecisionEnabled
    THEN s.currentApiLevel = s.manualPrecisionLevel
    ELSE s.currentApiLevel = s.autoCalculatedApiLevel

\* the number of commits, with no event in between, after which the state n
\* committed after p is left alone by the effects, counted up to k
RECURSIVE CommitsToSettle(_, _, _, _)
CommitsToSettle(p, n, cam, k) ==
  IF n = p THEN 0
  ELSE IF k = 0 THEN 1
  ELSE LET remount == MapDisplayMounted(token)
                        /\ initialMapCenter(n) # initialMapCenter(p)
           cam1 == IF remount THEN InitialView(initialMapCenter(n)) ELSE cam
       IN 1 + CommitsToSettle(n, CommitEffects(p, n, remount, FALSE, cam), cam1, k - 1)

\* C29: once the state updates have settled the effective precision level
\* is the manual level while the override is on and the zoom-derived level
\* while it is off; with the override on and the effective level at the
\* manual level, no step that leaves the override and the manual level
\* alone (a pan, a zoom, a timer, a commit) changes the effective level;
\* and from every state two commits with no event in between settle it.
C29_EffectiveLevelFollowsOverride ==
  [][/\ (st' = rendered') => LevelAligned(st')
     /\ (/\ st.manualPrecisionEnabled /\ st'.manualPrecisionEnabled
         /\ st'.manualPrecisionLevel = st.manualPrecisionLevel
         /\ st.currentApiLevel = st.manualPrecisionLevel)
          => st'.currentApiLevel = st.currentApiLevel
     /\ CommitsToSettle(rendered', st', camera', 3) <= 2]_vars

\* with the override on at a level other than the one of the zoom, a
\* debounced zoom event has changed the zoom-derived level and the state
\* has settled
C29_Witness ==
  /\ st = rendered
  /\ loadFired
  /\ timers[mapRef] = <<>>
  /\ st.manualPrecisionEnabled
  /\ st.manualPrecisionLevel # st.autoCalculatedApiLevel
  /\ st.autoCalculatedApiLevel = mapboxZoomToApiLevel(camera.zoom)
  /\ st.autoCalculatedApiLevel # mapboxZoomToApiLevel(InitialView(initialMapCenter(st)).zoom)
  /\ st.currentApiLevel = st.manualPrecisionLevel

\* C30: the toggle that switches the manual override on sets the manual
\* level to the zoom-derived level, which is the effective level at that
\* moment; and the commit of that toggle alone changes no state, so the
\* effective level stays, and it starts no request, clears no source and
\* leaves the loading flag alone.
C30_EnablingOverrideKeepsLevel ==
  [][/\ (handleManualPrecisionToggle /\ st'.manualPrecisionEnabled) =>
          /\ st'.manualPrecisionLevel = st.autoCalculatedApiLevel
          /\ st'.manualPrecisionLevel = st.currentApiLevel
          /\ st'.currentApiLevel = st.currentApiLevel
     /\ (/\ rendered' # rendered
         /\ ~rendered.manualPrecisionEnabled
         /\ st = [rendered EXCEPT !.manualPrecisionEnabled = TRUE,
                                  !.manualPrecisionLevel = st.manualPrecisionLevel]) =>
          /\ st' = st
          /\ inflight' = inflight
          /\ sources' = sources
          /\ isLoading' = isLoading]_vars

\* the override has been switched on after a zoom to another level, and the
\* commit has left the manual level, the zoom-derived level and the
\* effective level equal
C30_Witness ==
  /\ st = rendered
  /\ loadFired
  /\ inflight = <<>>
  /\ st.manualPrecisionEnabled
  /\ st.manualPrecisionLevel = st.autoCalculatedApiLevel
  /\ st.currentApiLevel = st.autoCalculatedApiLevel
  /\ st.autoCalculatedApiLevel = mapboxZoomToApiLevel(camera.zoom)
  /\ st.autoCalculatedApiLevel # mapboxZoomToApiLevel(InitialView(initialMapCenter(st)).zoom)

\* a commit starts a fetch cycle
IssuesCycle == Len(inflight') > Len(inflight)

\* C31: a commit starts a fetch cycle only when the load event of the
\* current map has fired and a viewport has been published; a selection,
\* mode or level change committed before that starts none.  The guard of
\* the fetch effect reads the isMapLoaded state, which still holds the value
\* of the previous map in the commit that replaces the map (C15): a commit
\* that carries the metadata centre together with a change of a fetch
\* dependency starts a cycle on a map whose load event has not fired.
C31_NoRequestBeforeLoadAndViewport ==
  [][IssuesCycle =>
       /\ loadFired'
       /\ rendered'.isMapLoaded
       /\ rendered'.currentBounds # NullBounds]_vars

\* the state to commit differs from the committed one, and only in the
\* radius scale, the opacity, the render style of the diversity heatmap or
\* the selected diversity scores
OnlyPaintChanged ==
  /\ st # rendered
  /\ [st EXCEPT !.heatmapRadiusScale = rendered.heatmapRadiusScale,
                !.heatmapOpacity = rendered.heatmapOpacity,
                !.diversityHeatmapMode = rendered.diversityHeatmapMode,
                !.selectedDiversityScores = rendered.selectedDiversityScores] = rendered

\* C32: the commit of a change of the radius scale, the opacity, the render
\* style of the diversity heatmap or the selected diversity scores alone
\* starts no request, leaves the content of every source as it was and
\* leaves the loading flag alone.
C32_PaintChangeLeavesData ==
  [][(rendered' # rendered /\ OnlyPaintChanged) =>
       /\ inflight' = inflight
       /\ sources' = sources
       /\ isLoading' = isLoading]_vars

\* with the diversity source holding the data of a response, all four have
\* been changed and committed
C32_Witness ==
  /\ st = rendered
  /\ loadFired
  /\ inflight = <<>>
  /\ st.dataSource = "diversity"
  /\ sources[DiversitySource] # <<>>
  /\ st.heatmapRadiusScale # InitialState.heatmapRadiusScale
  /\ st.heatmapOpacity # InitialState.heatmapOpacity
  /\ st.diversityHeatmapMode # InitialState.diversityHeatmapMode
  /\ st.selectedDiversityScores # InitialState.selectedDiversityScores
  /\ layers[StackedDiversity].heatmapRadius.scale = st.heatmapRadiusScale

\* a layer of the map is visible
Visible(id) == id \in DOMAIN layers /\ layers[id].visibility = "visible"

\* the layers of the density family and of the diversity family
DensityLayerIds == {id \in LayerIds : id[1] \in {"fill-layer-density", "heatmap-layer-density"}}
DiversityLayerIds == LayerIds \ DensityLayerIds

\* C33: as the layer effect of the last commit left the layers, no time
\* window has its fill layer and its heatmap layer both visible, no
\* diversity score has its fill layer visible together with its per-score
\* heatmap layer or with the stacked layer, the stacked layer and a
\* per-score heatmap layer are never both visible, and every layer of the
\* family that is not the committed data source is hidden.
C33_VisibleLayersExclusive ==
  Reconciled =>
    /\ \A id \in TIME_WINDOW_IDS : ~(Visible(FillDensity(id)) /\ Visible(HeatmapDensity(id)))
    /\ \A score \in DIVERSITY_SCORES :
         /\ ~(Visible(FillDiversity(score)) /\ Visible(PerScoreDiversity(score)))
         /\ ~(Visible(FillDiversity(score)) /\ Visible(StackedDiversity))
         /\ ~(Visible(StackedDiversity) /\ Visible(PerScoreDiversity(score)))
    /\ \A id \in IF rendered.dataSource = "density" THEN DiversityLayerIds
                                                     ELSE DensityLayerIds :
         ~Visible(id)

\* the per-score heatmap layers are shown after the stacked layer and the
\* heatmap layer of a time window have been shown and styled
C33_Witness ==
  /\ Reconciled
  /\ st = rendered
  /\ rendered.dataSource = "diversity"
  /\ \E score \in DIVERSITY_SCORES : Visible(PerScoreDiversity(score))
  /\ layers[StackedDiversity].heatmapRadius # DefaultRadius
  /\ layers[HeatmapDensity(0)].heatmapRadius # DefaultRadius
  /\ layers[FillDensity(0)].fillOpacity # "0"

\* the factor of the opacity knob in the heatmap opacity of a layer, in 1e-2
OpacityFactor(id) == IF id[1] = "heatmap-layer-density" THEN relativeOpacity(id[2]) ELSE 100

\* C34: the commit of a change of the opacity knob or of the radius knob on
\* the loaded map leaves every visible heatmap layer with the opacity and
\* the radius computed from the knob values of that commit, not from the
\* values before it.
C34_KnobChangePaintsNewValue ==
  [][(/\ rendered' # rendered
      /\ rendered'.isMapLoaded
      /\ \/ rendered'.heatmapOpacity # rendered.heatmapOpacity
         \/ rendered'.heatmapRadiusScale # rendered.heatmapRadiusScale) =>
       \A id \in HeatmapLayerIds :
         (id \in DOMAIN layers' /\ layers'[id].visibility = "visible") =>
           /\ layers'[id].heatmapOpacity = OpacityFactor(id) * rendered'.heatmapOpacity
           /\ layers'[id].heatmapRadius.scale = rendered'.heatmapRadiusScale]_vars

\* both knobs have been moved off their defaults and the commit has painted
\* the heatmap layer of the newest window with the new values
C34_Witness ==
  /\ Reconciled
  /\ st = rendered
  /\ rendered.heatmapOpacity # DEFAULT_HEATMAP_OPACITY
  /\ rendered.heatmapRadiusScale # DEFAULT_RADIUS_SCALE
  /\ Visible(HeatmapDensity(0))
  /\ layers[HeatmapDensity(0)].heatmapOpacity
       = HEATMAP_RELATIVE_MAX_OPACITY * rendered.heatmapOpacity
  /\ layers[HeatmapDensity(0)].heatmapRadius.scale = rendered.heatmapRadiusScale

\* no debounce timer is pending, of the current map or of an earlier one
NoTimerPending == \A s \in DOMAIN timers : timers[s] = <<>>

\* the published bounds are within the tolerance of the bounds of the map
\* on every edge
PublishedWithinTolerance ==
  \A e \in 1..4 : Abs(camera.bounds[e] - st.currentBounds[e]) <= Tolerance

\* C35: whenever no debounce timer is pending and the state updates have
\* settled after the first publish, the published bounds are within the
\* tolerance of the actual bounds of the map on every edge.  After the
\* metadata centre has replaced the map (C15) the published bounds are those
\* of the previous map until the load event of the new map publishes again.
C35_PublishedBoundsTrackMap ==
  (st = rendered /\ st.currentBounds # NullBounds /\ NoTimerPending)
    => PublishedWithinTolerance

\* a debounce timer of a map that has been torn down is due and runs
StaleTimerFires(s) == s # mapRef /\ Len(tornDown) > 0 /\ TimerFire(s)

\* C36: a debounce timer armed by the events of a map that has since been
\* torn down does not call the viewport callback: when it runs, the map
\* handle it tests is null and the state of App is left as it was.  The
\* cleanup does not cancel the timer and the function it runs tests
\* mapRef.current, the handle of whichever map is current: once a new map
\* has been set up the timer of the old one calls the callback with it.
C36_TornDownTimerNeverReports ==
  [][\A s \in Sessions : StaleTimerFires(s) => (mapRef = 0 /\ st' = st)]_vars

\* C37: if every request issued is eventually resolved and from some point
\* on no fetch cycle starts, then from some point on the loading flag is
\* false.
C37_LoadingEventuallyFalse ==
  <>[][~IssuesCycle]_vars => <>[](isLoading = FALSE)

\* every request has been resolved, one of them with an error, no cycle is
\* about to start and the flag is false
C37_Witness ==
  /\ loadFired
  /\ st = rendered
  /\ inflight = <<>>
  /\ failed # {}
  /\ \E id \in DOMAIN sources : sources[id] # <<>>
  /\ isLoading = FALSE

\* the one point every response of SpecConversion carries
OnePoint(dataSource) ==
  IF dataSource = "density" THEN <<DensityPoint>> ELSE <<DiversityPoint>>

\* the width in micro-degrees of the cell of a feature
CellWidth(feature) == feature.coordinates[2][1] - feature.coordinates[1][1]

\* C38: the continuation of a request writes geometry made with the display
\* mode and the precision level of the commit that issued the request,
\* whatever they are when the response arrives: a request issued in fill
\* mode at level L writes polygons of half-width 0.5 / 10^L, a request
\* issued in heatmap mode writes points.
C38_ConversionUsesIssueTimeModeAndLevel ==
  [][\A i \in 1..Len(inflight) : \A id \in inflight[i].pending :
       (/\ inflight' # inflight
        /\ id \in DOMAIN sources
        /\ Answered(i, id, OnePoint(inflight[i].dataSource))) =>
          /\ Len(sources'[id]) = 1
          /\ IF inflight[i].displayMode = "fill"
               THEN /\ sources'[id][1].type = "Polygon"
                    /\ CellWidth(sources'[id][1]) * Pow10(inflight[i].level) = 1000000
               ELSE /\ sources'[id][1].type = "Point"
                    /\ sources'[id][1].coordinates
                         = <<OnePoint(inflight[i].dataSource)[1].lon,
                             OnePoint(inflight[i].dataSource)[1].lat>>]_vars

\* the source of the newest window holds a cell of level MIN_API_LEVEL
\* while the committed display mode is heatmap and the committed level is
\* another, and the request issued for them is still in flight
C38_Witness ==
  /\ loadFired
  /\ st = rendered
  /\ rendered.displayMode = "heatmap"
  /\ rendered.currentApiLevel # MIN_API_LEVEL
  /\ Len(inflight) = 1
  /\ inflight[1].displayMode = "heatmap"
  /\ inflight[1].level = rendered.currentApiLevel
  /\ DensitySource(0) \in inflight[1].pending
  /\ Len(sources[DensitySource(0)]) = 1
  /\ sources[DensitySource(0)][1].type = "Polygon"
  /\ CellWidth(sources[DensitySource(0)][1]) * Pow10(MIN_API_LEVEL) = 1000000
====
